---------------------------- MODULE Spec2Model ----------------------------
(***************************************************************************)
(* Partition validation, resize and relocation engine of ittoolkit         *)
(* (src-tauri/src/partition and src-tauri/src/partition_commands.rs).      *)
(*                                                                         *)
(* Sizes and offsets are byte counts.  The source computes with u64; the   *)
(* model computes with words of WordBits bits, so that sums that leave the *)
(* word are reachable by the model checker.  An arithmetic overflow is not *)
(* undefined in Rust but depends on the build: with overflow checks (the   *)
(* dev profile) the operation panics, without them (the release profile)   *)
(* it wraps.  overflow_checks is the build's choice.                       *)
(***************************************************************************)
EXTENDS Integers, Sequences, FiniteSets, TLC

VARIABLES
    platform,         \* target_os of the build: "windows", "linux", "macos"
    overflow_checks,  \* whether the build panics on integer overflow
    op,               \* the operation of this run
    partition,        \* the PartitionInfo snapshot the operation is given
    disk,             \* the DiskInfo snapshot the operation is given
    options,          \* MovePartitionOptions
    target_size,      \* expand / shrink argument
    pc,               \* position of the run in the operation's code
    validation,       \* `validation` of move_partition; result of a validate_* call
    new_partition,    \* `new_partition` of move_partition
    progress,         \* the records handed to the progress sink, in order
    calls,            \* the driver commands run, in order, each with its outcome
    fslog,            \* filesystem calls on the staging directory, in order
    staging,          \* the staging directory on the filesystem
    result,           \* what the operation returned
    move_operations,  \* the plan given to execute_partition_moves
    op_index,         \* `i` of the loop of execute_partition_moves
    table,            \* the disk as discovery finds it between operations
    snapshots,        \* the snapshots execute_partition_moves took, in order
    cancel_request,   \* a cancellation the user asked for, and when
    other,            \* a second command invoked while the first one runs
    assigned_mount    \* the drive letter `assign` gave the volume the move created

\* the state of the commands around one run of an operation
command_vars ==
    <<move_operations, op_index, table, snapshots, cancel_request, other, assigned_mount>>

vars == <<platform, overflow_checks, op, partition, disk, options, target_size,
          pc, validation, new_partition, progress, calls, fslog, staging, result,
          command_vars>>

-----------------------------------------------------------------------------
(* Bounds of the model *)

\* width of the machine word standing for u64
WordBits == 24
\* size of the largest disk snapshot, in MiB
DiskUnits == 5

(* Program constants *)
MiB == 1024 * 1024

Modulus == 2 ^ WordBits
U64Max == Modulus - 1

\* u64 `+` without overflow checks
WrappingAdd(a, b) == (a + b) % Modulus
Overflows(a, b) == a + b > U64Max

\* Option<T>
None == <<>>
Some(x) == <<x>>
IsSome(o) == o # None
Unwrap(o) == o[1]

Platforms == {"windows", "linux", "macos"}
PartitionFlags == {"Boot", "System"}

-----------------------------------------------------------------------------
(* Results of fallible calls *)

Ok(v) == [tag |-> "Ok", val |-> v]
Err(m) == [tag |-> "Err", msg |-> m]
Panic == [tag |-> "Panic"]
Pending == [tag |-> "Pending"]

-----------------------------------------------------------------------------
(* Data model: PartitionInfo, DiskInfo, ValidationResult *)

PartitionInfo(id, number, start_offset, total_size, filesystem, mount_point, is_mounted, flags) ==
    [id |-> id, number |-> number, device_path |-> <<"/dev", id>>,
     start_offset |-> start_offset, total_size |-> total_size,
     used_space |-> None,
     filesystem |-> filesystem, mount_point |-> mount_point,
     is_mounted |-> is_mounted, flags |-> flags]

\* the same partition with its used space known (discovery fills used_space
\* for mounted partitions)
with_used_space(p, used_space) == [p EXCEPT !.used_space = Some(used_space)]

DiskInfo(total_size, partitions) ==
    [id |-> "disk-0", total_size |-> total_size, partitions |-> partitions]

\* end of a partition's interval [start_offset, start_offset + total_size)
EndOf(p) == p.start_offset + p.total_size

\* the half-open byte intervals [a, b) and [c, d) share a byte
Intersects(a, b, c, d) == a < d /\ c < b /\ a < b /\ c < d

-----------------------------------------------------------------------------
(* validate_move *)

BoundsError == [msg |-> "Target location is outside disk bounds"]
OverlapError(other_partition) ==
    [msg |-> "Target location overlaps with partition",
     names |-> other_partition.device_path]
MountedSystemError == [msg |-> "Cannot move system or boot partition while it's mounted."]

MountedWarning ==
    [msg |-> "Partition is currently mounted. It must be unmounted before moving."]
BootWarning ==
    [msg |-> "WARNING: This is a boot partition. Moving it may make the system unbootable!"]
SystemWarning ==
    [msg |-> "WARNING: This is a system partition. Moving it requires extreme caution!"]
BackupSpaceWarning(p) ==
    [msg |-> "Moving requires temporary backup space of approximately",
     size |-> p.total_size]

\* a variant of the overlap test that leaves out the containment condition
overlap_without_containment(target_offset, target_end, other_start, other_end) ==
    \/ (target_offset >= other_start /\ target_offset < other_end)
    \/ (target_end > other_start /\ target_end <= other_end)

\* the three-condition overlap test of the loop body
overlap_check(target_offset, target_end, other_start, other_end) ==
    \/ (target_offset >= other_start /\ target_offset < other_end)
    \/ (target_end > other_start /\ target_end <= other_end)
    \/ (target_offset <= other_start /\ target_end >= other_end)

\* the partitions of the disk the loop reports, in the order of disk.partitions
conflicting_partitions(p, d, target_offset) ==
    SelectSeq(d.partitions,
        LAMBDA other_partition :
            /\ other_partition.id # p.id
            /\ overlap_check(target_offset,
                             WrappingAdd(target_offset, p.total_size),
                             other_partition.start_offset,
                             WrappingAdd(other_partition.start_offset,
                                         other_partition.total_size)))

\* a variant of the checks that makes every mounted partition an error
validate_move_refusing_mounted(p, d, target_offset) ==
    LET conflicts == conflicting_partitions(p, d, target_offset)
        overlap_errors == [i \in 1..Len(conflicts) |-> OverlapError(conflicts[i])]
    IN  [is_valid |-> (Len(conflicts) = 0) /\ ~p.is_mounted,
         errors |-> overlap_errors
                    \o (IF p.is_mounted THEN <<MountedSystemError>> ELSE <<>>),
         warnings |-> (IF p.is_mounted THEN <<MountedWarning>> ELSE <<>>)
                      \o (IF "Boot" \in p.flags THEN <<BootWarning>> ELSE <<>>)
                      \o (IF "System" \in p.flags THEN <<SystemWarning>> ELSE <<>>)
                      \o <<BackupSpaceWarning(p)>>,
         safe_size |-> Some(p.total_size),
         minimum_size |-> None,
         maximum_size |-> None,
         has_adjacent_space |-> FALSE,
         adjacent_space |-> 0]

\* checks 2 to 5 of validate_move, for a target inside the disk
validate_move_checks(p, d, target_offset) ==
    LET conflicts == conflicting_partitions(p, d, target_offset)
        overlap_errors == [i \in 1..Len(conflicts) |-> OverlapError(conflicts[i])]
        mounted_system == p.is_mounted /\ ("System" \in p.flags \/ "Boot" \in p.flags)
    IN  [is_valid |-> (Len(conflicts) = 0) /\ ~mounted_system,
         errors |-> overlap_errors
                    \o (IF mounted_system THEN <<MountedSystemError>> ELSE <<>>),
         warnings |-> (IF p.is_mounted THEN <<MountedWarning>> ELSE <<>>)
                      \o (IF "Boot" \in p.flags THEN <<BootWarning>> ELSE <<>>)
                      \o (IF "System" \in p.flags THEN <<SystemWarning>> ELSE <<>>)
                      \o <<BackupSpaceWarning(p)>>,
         safe_size |-> Some(p.total_size),
         minimum_size |-> None,
         maximum_size |-> None,
         has_adjacent_space |-> FALSE,
         adjacent_space |-> 0]

\* a variant of the bounds check that marks the result invalid without
\* recording the error
validate_move_out_of_bounds_silently(p) ==
    [is_valid |-> FALSE,
     errors |-> <<>>,
     warnings |-> <<>>,
     safe_size |-> Some(p.total_size),
     minimum_size |-> None,
     maximum_size |-> None,
     has_adjacent_space |-> FALSE,
     adjacent_space |-> 0]

\* check 1 of validate_move: the early return for a target outside the disk
validate_move_out_of_bounds(p) ==
    [is_valid |-> FALSE,
     errors |-> <<BoundsError>>,
     warnings |-> <<>>,
     safe_size |-> Some(p.total_size),
     minimum_size |-> None,
     maximum_size |-> None,
     has_adjacent_space |-> FALSE,
     adjacent_space |-> 0]

\* validate_move(partition, disk, target_offset) -> Result<ValidationResult>
validate_move(p, d, target_offset, checks) ==
    IF checks /\ Overflows(target_offset, p.total_size)
    THEN Panic
    ELSE IF WrappingAdd(target_offset, p.total_size) > d.total_size
         THEN Ok(validate_move_out_of_bounds(p))
         ELSE Ok(validate_move_checks(p, d, target_offset))

-----------------------------------------------------------------------------
(* Snapshots the discovery collaborator can supply.  A snapshot satisfies  *)
(* the data model's invariants: every partition lies inside the disk and   *)
(* no two partitions share a byte.                                         *)

\* ids of the partitions a snapshot can hold beside the one operated on
OtherIds == {"sda2", "sda3"}
PartitionNumber(id) == CASE id = "sda1" -> 1 [] id = "sda2" -> 2 [] id = "sda3" -> 3

\* <<start, size>> pairs, in bytes, inside a disk of DiskUnits MiB
Extents == {e \in (0..DiskUnits) \X (0..DiskUnits) : e[1] + e[2] <= DiskUnits}
ExtentsIntersect(e, f) == Intersects(e[1], e[1] + e[2], f[1], f[1] + f[2])

\* an unmounted data partition beside the one operated on
OtherPartition(id, e) ==
    PartitionInfo(id, PartitionNumber(id), e[1] * MiB, e[2] * MiB, "Ext4", None,
                  FALSE, {})

\* assignments of extents to some of the other ids, none sharing a byte
OtherLayouts ==
    {f \in UNION {[ids -> {e \in Extents : e[2] > 0}] : ids \in SUBSET OtherIds} :
        \A i, j \in DOMAIN f : i # j => ~ExtentsIntersect(f[i], f[j])}

\* the sequence of a finite set of ids in id order
RECURSIVE IdSeq(_)
IdSeq(ids) ==
    IF ids = {} THEN <<>>
    ELSE LET least == CHOOSE i \in ids : \A j \in ids : PartitionNumber(i) <= PartitionNumber(j)
         IN  <<least>> \o IdSeq(ids \ {least})

OthersOf(f) ==
    LET order == IdSeq(DOMAIN f)
    IN  [i \in 1..Len(order) |-> OtherPartition(order[i], f[order[i]])]

\* target offsets a caller can ask for: inside the disk, just past it, and
\* at the top of the word
TargetOffsets ==
    {k * MiB : k \in 0..(DiskUnits + 1)} \cup {Modulus - MiB, U64Max}

-----------------------------------------------------------------------------
(* Specification of the validation engine: a caller draws a snapshot and a *)
(* request and calls the validation function once.                         *)

\* an operation called by itself: no plan, no request to cancel, no second
\* command; the disk is as the snapshot shows it
NoCommand ==
    /\ move_operations = <<>>
    /\ op_index = 0
    /\ table = disk
    /\ snapshots = <<>>
    /\ cancel_request = None
    /\ other = [pc |-> "idle"]
    /\ assigned_mount = "unassigned"

InitValidate ==
    /\ platform = "linux"
    /\ overflow_checks \in BOOLEAN
    /\ op = "validate_move"
    /\ \E e \in Extents, f \in OtherLayouts, mounted \in BOOLEAN,
          flags \in SUBSET PartitionFlags :
          /\ \A i \in DOMAIN f : ~ExtentsIntersect(e, f[i])
          /\ partition = PartitionInfo("sda1", 1, e[1] * MiB, e[2] * MiB, "Ext4",
                                       IF mounted THEN Some("mount point of sda1") ELSE None,
                                       mounted, flags)
          /\ disk = DiskInfo(DiskUnits * MiB, <<partition>> \o OthersOf(f))
    /\ options \in [target_offset : TargetOffsets, verify_after_move : {FALSE},
                    backup_path : {None}]
    /\ target_size = 0
    /\ pc = "call"
    /\ validation = Pending
    /\ new_partition = None
    /\ progress = <<>>
    /\ calls = <<>>
    /\ fslog = <<>>
    /\ staging = [exists |-> FALSE, content |-> {}]
    /\ result = Pending
    /\ NoCommand

CallValidateMove ==
    /\ op = "validate_move"
    /\ pc = "call"
    /\ validation' = validate_move(partition, disk, options.target_offset, overflow_checks)
    /\ pc' = "returned"
    /\ UNCHANGED <<command_vars, platform, overflow_checks, op, partition, disk, options,
                   target_size,
                   new_partition, progress, calls, fslog, staging, result>>

NextValidate == CallValidateMove

SpecValidate == InitValidate /\ [][NextValidate]_vars

-----------------------------------------------------------------------------
(* MoveProgress: the progress records of move_partition *)

MoveProgress_validating(message) ==
    [phase |-> "Validating", percent |-> 0, message |-> message,
     bytes_processed |-> 0, total_bytes |-> 0, can_cancel |-> TRUE]

MoveProgress_backing_up(percent, bytes_processed, total_bytes) ==
    [phase |-> "BackingUp", percent |-> percent,
     message |-> "Backing up partition data...",
     bytes_processed |-> bytes_processed, total_bytes |-> total_bytes,
     can_cancel |-> TRUE]

\* a variant of deleting_partition that leaves the record cancellable
deleting_partition_cancellable(message) ==
    [phase |-> "DeletingOldPartition", percent |-> 40, message |-> message,
     bytes_processed |-> 0, total_bytes |-> 0, can_cancel |-> TRUE]

MoveProgress_deleting_partition(message) ==
    [phase |-> "DeletingOldPartition", percent |-> 40, message |-> message,
     bytes_processed |-> 0, total_bytes |-> 0, can_cancel |-> FALSE]

MoveProgress_creating_partition(message) ==
    [phase |-> "CreatingNewPartition", percent |-> 50, message |-> message,
     bytes_processed |-> 0, total_bytes |-> 0, can_cancel |-> FALSE]

\* percent is 0 or 100 at every call site, so percent * 0.4 is exact
MoveProgress_restoring_data(percent, bytes_processed, total_bytes) ==
    [phase |-> "RestoringData", percent |-> 50 + (percent * 4) \div 10,
     message |-> "Restoring partition data...",
     bytes_processed |-> bytes_processed, total_bytes |-> total_bytes,
     can_cancel |-> FALSE]

MoveProgress_verifying(percent) ==
    [phase |-> "Verifying", percent |-> 90 + percent \div 10,
     message |-> "Verifying data integrity...",
     bytes_processed |-> 0, total_bytes |-> 0, can_cancel |-> FALSE]

MoveProgress_complete(message) ==
    [phase |-> "Complete", percent |-> 100, message |-> message,
     bytes_processed |-> 0, total_bytes |-> 0, can_cancel |-> FALSE]

MoveProgress_error(message) ==
    [phase |-> "Error", percent |-> 0, message |-> message,
     bytes_processed |-> 0, total_bytes |-> 0, can_cancel |-> FALSE]

-----------------------------------------------------------------------------
(* The platform driver: native commands run with std::process::Command.    *)
(* A command either runs and exits with success, runs and exits with       *)
(* failure, or cannot be started (output() returns an io error).           *)

CommandOutcomes == {"success", "failure", "spawn_error"}
\* a copy that fails may leave part of the tree at the destination
CopyOutcomes == CommandOutcomes \cup {"failure_partial"}

DriverCall(step, cmd, arg, outcome) ==
    [step |-> step, cmd |-> cmd, arg |-> arg, ok |-> outcome = "success"]

\* an anyhow error: the text of its message and the values formatted into it
Error(text, args) == Err([text |-> text, args |-> args])
IoError(call) == Error("io error", <<[call |-> call]>>)
Stderr == [output |-> "stderr of the command"]

\* the error a failed command is turned into: the io error of output()?, or
\* the command's own message with its stderr
CommandError(outcome, text) ==
    IF outcome = "spawn_error" THEN IoError("Command::output") ELSE Error(text, <<Stderr>>)

-----------------------------------------------------------------------------
(* move_partition *)

\* options.backup_path, or the temp directory keyed by the partition number
backup_path_of(opts, p) ==
    IF IsSome(opts.backup_path) THEN Unwrap(opts.backup_path)
    ELSE [dir |-> "temp_dir", name |-> <<"partition_backup_", p.number>>]

copy_command == IF platform = "windows" THEN "robocopy" ELSE "rsync"

Emit(records) == progress' = progress \o records

\* a variant of the first step that goes on whatever validate_move answered
MoveValidateIgnoringResult ==
    /\ op = "move"
    /\ pc = "start"
    /\ Emit(<<MoveProgress_validating("Validating move operation...")>>)
    /\ validation' = validate_move(partition, disk, options.target_offset, overflow_checks)
    /\ IF validation'.tag = "Panic"
       THEN pc' = "done" /\ result' = Panic
       ELSE pc' = "prepare_backup" /\ result' = result
    /\ UNCHANGED <<command_vars, platform, overflow_checks, op, partition, disk, options,
                   target_size,
                   new_partition, calls, fslog, staging>>

\* lines 255-264: the Validating record, validate_move, abort when invalid
MoveValidate ==
    /\ op = "move"
    /\ pc = "start"
    /\ Emit(<<MoveProgress_validating("Validating move operation...")>>)
    /\ validation' = validate_move(partition, disk, options.target_offset, overflow_checks)
    /\ IF validation'.tag = "Panic"
       THEN pc' = "done" /\ result' = Panic
       ELSE IF ~validation'.val.is_valid
            THEN /\ pc' = "done"
                 /\ result' = Error("Move validation failed", validation'.val.errors)
            ELSE pc' = "prepare_backup" /\ result' = result
    /\ UNCHANGED <<command_vars, platform, overflow_checks, op, partition, disk, options,
                   target_size,
                   new_partition, calls, fslog, staging>>

\* lines 266-270 and backup_partition_data's create_dir_all (line 313)
MovePrepareBackup ==
    /\ op = "move"
    /\ pc = "prepare_backup"
    /\ Emit(<<MoveProgress_validating("Preparing backup location...")>>)
    /\ \E created \in BOOLEAN :
          /\ fslog' = Append(fslog, [call |-> "create_dir_all", ok |-> created])
          /\ staging' = IF created THEN [staging EXCEPT !.exists = TRUE] ELSE staging
          /\ pc' = IF created THEN "backup" ELSE "done"
          /\ result' = IF created THEN result ELSE IoError("create_dir_all")
    /\ UNCHANGED <<command_vars, platform, overflow_checks, op, partition, disk, options,
                   target_size,
                   validation, new_partition, calls>>

\* a variant of the backup step that takes a failed copy for a finished one
MoveBackupIgnoringFailure ==
    /\ op = "move"
    /\ pc = "backup"
    /\ IsSome(partition.mount_point)
    /\ \E outcome \in CopyOutcomes :
          /\ Emit(<<MoveProgress_backing_up(0, 0, partition.total_size),
                    MoveProgress_backing_up(100, partition.total_size,
                                            partition.total_size)>>)
          /\ calls' = Append(calls, DriverCall("backup", copy_command,
                                              <<Unwrap(partition.mount_point),
                                                backup_path_of(options, partition)>>,
                                              outcome))
          /\ staging' = [staging EXCEPT !.content = @ \cup {partition.id}]
          /\ pc' = "delete"
          /\ result' = result
    /\ UNCHANGED <<command_vars, platform, overflow_checks, op, partition, disk, options,
                   target_size,
                   validation, new_partition, fslog>>

\* backup_partition_windows / backup_partition_linux / backup_partition_macos
\* and the check of their result (lines 272-274)
MoveBackup ==
    /\ op = "move"
    /\ pc = "backup"
    /\ IF ~IsSome(partition.mount_point)
       THEN /\ pc' = "done"
            /\ result' = Error(IF platform = "windows"
                               THEN "Partition must have a mount point"
                               ELSE "Partition must be mounted", <<>>)
            /\ UNCHANGED <<progress, calls, staging>>
       ELSE \E outcome \in CopyOutcomes :
               /\ Emit(<<MoveProgress_backing_up(0, 0, partition.total_size)>>
                       \o (IF outcome = "success"
                           THEN <<MoveProgress_backing_up(100, partition.total_size,
                                                          partition.total_size)>>
                           ELSE <<>>))
               /\ calls' = Append(calls, DriverCall("backup", copy_command,
                                              <<Unwrap(partition.mount_point),
                                                backup_path_of(options, partition)>>,
                                              outcome))
               /\ staging' = [staging EXCEPT !.content =
                                 @ \cup (CASE outcome = "success" -> {partition.id}
                                           [] outcome = "failure_partial" -> {"partial copy"}
                                           [] OTHER -> {})]
               /\ pc' = IF outcome = "success" THEN "delete" ELSE "done"
               /\ result' = IF outcome = "success" THEN result
                            ELSE CommandError(outcome,
                                     IF platform = "windows"
                                     THEN "Robocopy failed with exit code"
                                     ELSE "Rsync failed")
    /\ UNCHANGED <<command_vars, platform, overflow_checks, op, partition, disk, options,
                   target_size,
                   validation, new_partition, fslog>>

\* diskpart is driven by a script file written first with std::fs::write(..)?
ScriptOutcomes == CommandOutcomes \cup {"script_error"}

delete_command ==
    CASE platform = "windows" -> "diskpart delete partition"
      [] platform = "linux" -> "parted rm"
      [] platform = "macos" -> "diskutil eraseVolume"

delete_error_text ==
    CASE platform = "windows" -> "Diskpart delete failed"
      [] platform = "linux" -> "parted delete failed"
      [] platform = "macos" -> "diskutil delete failed"

\* lines 276-278 and delete_partition_windows / _linux / _macos
MoveDelete ==
    /\ op = "move"
    /\ pc = "delete"
    /\ Emit(<<MoveProgress_deleting_partition("Deleting old partition...")>>)
    /\ \E outcome \in (IF platform = "windows" THEN ScriptOutcomes ELSE CommandOutcomes) :
          /\ calls' = IF outcome = "script_error" THEN calls
                      ELSE Append(calls, DriverCall("delete_table_entry", delete_command,
                                                    <<partition.device_path>>, outcome))
          /\ pc' = IF outcome = "success" THEN "create" ELSE "done"
          /\ result' = CASE outcome = "success" -> result
                         [] outcome = "script_error" -> IoError("fs::write")
                         [] OTHER -> CommandError(outcome, delete_error_text)
    /\ UNCHANGED <<command_vars, platform, overflow_checks, op, partition, disk, options,
                   target_size,
                   validation, new_partition, fslog, staging>>

\* what the `assign` line of the create script leaves the new volume with:
\* the drive letter the snapshot records for the old partition, another
\* letter (diskpart takes the next free one), or none
AssignOutcomes == {"snapshot letter", "another letter", "no letter"}

\* a variant of the create step that removes the staging directory when the
\* step fails
MoveCreateCleaningUp ==
    /\ op = "move"
    /\ pc = "create"
    /\ Emit(<<MoveProgress_creating_partition("Creating partition at new location...")>>)
    /\ \E outcome \in ScriptOutcomes, letter \in AssignOutcomes :
          /\ assigned_mount' = IF outcome = "success" /\ platform = "windows"
                               THEN letter ELSE assigned_mount
          /\ calls' = IF outcome = "script_error" \/ platform # "windows" THEN calls
                      ELSE Append(calls, DriverCall("create_table_entry",
                                                    "diskpart create partition",
                                                    <<partition.total_size \div MiB,
                                                      options.target_offset \div 1024>>,
                                                    outcome))
          /\ IF outcome = "success" /\ platform = "windows"
             THEN /\ new_partition' =
                        Some([partition EXCEPT !.start_offset = options.target_offset])
                  /\ pc' = "restore"
                  /\ UNCHANGED <<result, fslog, staging>>
             ELSE /\ pc' = "done"
                  /\ result' = CommandError(outcome, "Diskpart create failed")
                  /\ fslog' = Append(fslog, [call |-> "remove_dir_all", ok |-> TRUE])
                  /\ staging' = [exists |-> FALSE, content |-> {}]
                  /\ UNCHANGED new_partition
    /\ UNCHANGED <<move_operations, op_index, table, snapshots, cancel_request, other,
                   platform, overflow_checks, op, partition, disk, options, target_size,
                   validation>>

\* lines 280-287, create_partition_at_offset and
\* create_partition_at_offset_windows
MoveCreate ==
    /\ op = "move"
    /\ pc = "create"
    /\ Emit(<<MoveProgress_creating_partition("Creating partition at new location...")>>)
    /\ IF platform # "windows"
       THEN /\ pc' = "done"
            /\ result' = Error("Partition creation at specific offset not yet fully implemented for this platform.", <<>>)
            /\ UNCHANGED <<calls, new_partition, assigned_mount>>
       ELSE \E outcome \in ScriptOutcomes, letter \in AssignOutcomes :
               /\ assigned_mount' = IF outcome = "success" THEN letter ELSE assigned_mount
               /\ calls' = IF outcome = "script_error" THEN calls
                           ELSE Append(calls, DriverCall("create_table_entry",
                                                         "diskpart create partition",
                                                         <<partition.total_size \div MiB,
                                                           options.target_offset \div 1024>>,
                                                         outcome))
               /\ new_partition' =
                     IF outcome = "success"
                     THEN Some([partition EXCEPT !.start_offset = options.target_offset])
                     ELSE new_partition
               /\ pc' = IF outcome = "success" THEN "restore" ELSE "done"
               /\ result' = CASE outcome = "success" -> result
                              [] outcome = "script_error" -> IoError("fs::write")
                              [] OTHER -> CommandError(outcome, "Diskpart create failed")
    /\ UNCHANGED <<move_operations, op_index, table, snapshots, cancel_request, other,
                   platform, overflow_checks, op, partition, disk, options, target_size,
                   validation, fslog, staging>>

restore_error_text ==
    IF platform = "windows" THEN "Robocopy restore failed code" ELSE "Rsync restore failed"

\* lines 289-292, restore_partition_data and restore_partition_windows /
\* _linux / _macos
MoveRestore ==
    /\ op = "move"
    /\ pc = "restore"
    /\ \E created \in BOOLEAN, outcome \in CopyOutcomes :
          LET target == Unwrap(new_partition)
              mounted == IsSome(target.mount_point)
              copied == created /\ mounted
              done_ok == copied /\ outcome = "success"
          IN  /\ Emit(<<MoveProgress_restoring_data(0, 0, target.total_size)>>
                      \o (IF done_ok
                          THEN <<MoveProgress_restoring_data(100, target.total_size,
                                                             target.total_size)>>
                          ELSE <<>>))
              /\ fslog' = Append(fslog, [call |-> "create_dir_all", ok |-> created])
              /\ staging' = IF created THEN [staging EXCEPT !.exists = TRUE] ELSE staging
              /\ calls' = IF copied
                          THEN Append(calls, DriverCall("restore", copy_command,
                                                    <<backup_path_of(options, partition),
                                                      Unwrap(target.mount_point)>>,
                                                    outcome))
                          ELSE calls
              /\ pc' = IF done_ok THEN "finish" ELSE "done"
              /\ result' = CASE done_ok -> result
                             [] ~created -> IoError("create_dir_all")
                             [] ~mounted ->
                                  Error(IF platform = "windows"
                                        THEN "Target partition must be mounted to restore data"
                                        ELSE "Target partition must be mounted", <<>>)
                             [] OTHER -> CommandError(outcome, restore_error_text)
    /\ UNCHANGED <<command_vars, platform, overflow_checks, op, partition, disk, options,
                   target_size,
                   validation, new_partition>>

\* a variant of the last step that emits the Verifying record unconditionally
MoveFinishAlwaysVerifying ==
    /\ op = "move"
    /\ pc = "finish"
    /\ Emit(<<MoveProgress_verifying(0),
              MoveProgress_complete("Partition moved successfully!")>>)
    /\ fslog' = Append(fslog, [call |-> "remove_dir_all", ok |-> TRUE])
    /\ staging' = [exists |-> FALSE, content |-> {}]
    /\ pc' = "done"
    /\ result' = Ok("unit")
    /\ UNCHANGED <<command_vars, platform, overflow_checks, op, partition, disk, options,
                   target_size,
                   validation, new_partition, calls>>

\* lines 294-304: the optional Verifying record, removal of the staging
\* directory (its result is discarded), the Complete record
MoveFinish ==
    /\ op = "move"
    /\ pc = "finish"
    /\ Emit((IF options.verify_after_move THEN <<MoveProgress_verifying(0)>> ELSE <<>>)
            \o <<MoveProgress_complete("Partition moved successfully!")>>)
    /\ fslog' = Append(fslog, [call |-> "remove_dir_all", ok |-> TRUE])
    /\ staging' = [exists |-> FALSE, content |-> {}]
    /\ pc' = "done"
    /\ result' = Ok("unit")
    /\ UNCHANGED <<command_vars, platform, overflow_checks, op, partition, disk, options,
                   target_size,
                   validation, new_partition, calls>>

-----------------------------------------------------------------------------
(* The expand_partition and shrink_partition commands                      *)
(* (partition_commands.rs) and the workflows they run (resize/expand.rs,   *)
(* resize/shrink.rs).  ResizeProgress is defined in resize/mod.rs; only    *)
(* the names of its constructors are used here.                            *)

ResizeProgress_validating(message) == [phase |-> "Validating", message |-> message]
ResizeProgress_expanding_filesystem(percent, message) ==
    [phase |-> "ExpandingFilesystem", percent |-> percent, message |-> message]
ResizeProgress_checking_filesystem(message) ==
    [phase |-> "CheckingFilesystem", message |-> message]
ResizeProgress_resizing_filesystem(percent, message) ==
    [phase |-> "ResizingFilesystem", percent |-> percent, message |-> message]
ResizeProgress_complete(message) == [phase |-> "Complete", message |-> message]

Filesystems == {"NTFS", "Ext4", "APFS", "FAT32"}

\* u64 saturating_sub
SaturatingSub(a, b) == IF a >= b THEN a - b ELSE 0
\* u64 `-` without overflow checks
WrappingSub(a, b) == (a - b + Modulus) % Modulus

\* lines 64-75 of partition_commands.rs: the Validating record, discovery of
\* the partition, the ExpandingFilesystem record
ExpandBegin ==
    /\ op = "expand"
    /\ pc = "start"
    /\ \E found \in BOOLEAN :
          /\ Emit(<<ResizeProgress_validating("Starting validation...")>>
                  \o (IF found
                      THEN <<ResizeProgress_expanding_filesystem(0, "Expanding partition")>>
                      ELSE <<>>))
          /\ pc' = IF found THEN "expand_table" ELSE "done"
          /\ result' = IF found THEN result
                       ELSE Error("get_partition_info failed", <<>>)
    /\ UNCHANGED <<command_vars, platform, overflow_checks, op, partition, disk, options,
                   target_size,
                   validation, new_partition, calls, fslog, staging>>

\* a variant of the table phase that runs the command again when it failed
ExpandTableRetrying ==
    /\ op = "expand"
    /\ pc = "expand_table"
    /\ platform = "linux"
    /\ \E outcome \in CommandOutcomes, again \in CommandOutcomes :
          LET first == DriverCall("resize_table", "parted resizepart",
                                  <<target_size \div MiB>>, outcome)
              second == DriverCall("resize_table", "parted resizepart",
                                   <<target_size \div MiB>>, again)
          IN  /\ calls' = IF outcome = "success" THEN Append(calls, first)
                          ELSE calls \o <<first, second>>
              /\ pc' = "expand_fs"
              /\ result' = result
    /\ UNCHANGED <<command_vars, platform, overflow_checks, op, partition, disk, options,
                   target_size,
                   validation, new_partition, progress, fslog, staging>>

\* expand_partition_table: diskpart extend (windows), parted resizepart
\* (linux), nothing (macos)
ExpandTable ==
    /\ op = "expand"
    /\ pc = "expand_table"
    /\ CASE platform = "macos" ->
              /\ pc' = "expand_fs"
              /\ UNCHANGED <<calls, result>>
         [] platform = "linux" ->
              \E outcome \in CommandOutcomes :
                 /\ calls' = Append(calls, DriverCall("resize_table", "parted resizepart",
                                                      <<target_size \div MiB>>, outcome))
                 /\ pc' = IF outcome = "success" THEN "expand_fs" ELSE "done"
                 /\ result' = IF outcome = "success" THEN result
                              ELSE CommandError(outcome, "parted failed")
         [] platform = "windows" ->
              LET size_increase_mb ==
                      SaturatingSub(target_size, partition.total_size) \div MiB
              IN  IF ~IsSome(partition.mount_point)
                  THEN /\ pc' = "done"
                       /\ result' = Error("No drive letter found for partition", <<>>)
                       /\ UNCHANGED calls
                  ELSE IF size_increase_mb = 0
                  THEN /\ pc' = "done"
                       /\ result' = Error("Target size must be larger than current size",
                                          <<>>)
                       /\ UNCHANGED calls
                  ELSE \E outcome \in ScriptOutcomes :
                          /\ calls' = IF outcome = "script_error" THEN calls
                                      ELSE Append(calls,
                                               DriverCall("resize_table", "diskpart extend",
                                                          <<size_increase_mb>>, outcome))
                          /\ pc' = IF outcome = "success" THEN "expand_fs" ELSE "done"
                          /\ result' = CASE outcome = "success" -> result
                                         [] outcome = "script_error" -> IoError("fs::write")
                                         [] OTHER -> CommandError(outcome, "Diskpart failed")
    /\ UNCHANGED <<command_vars, platform, overflow_checks, op, partition, disk, options,
                   target_size,
                   validation, new_partition, progress, fslog, staging>>

\* what expand_filesystem does for the partition's filesystem on this build
expand_filesystem_kind ==
    CASE partition.filesystem = "NTFS" ->
            IF platform = "windows" THEN "nothing" ELSE "ntfsresize"
      [] partition.filesystem \in {"Ext2", "Ext3", "Ext4"} ->
            IF platform = "linux" THEN "resize2fs" ELSE "unsupported"
      [] partition.filesystem \in {"APFS", "HFSPlus"} ->
            IF platform = "macos" THEN "diskutil" ELSE "unsupported"
      [] OTHER -> "unsupported"

expand_filesystem_error ==
    CASE partition.filesystem \in {"Ext2", "Ext3", "Ext4"} ->
            "ext4 resize is only supported on Linux"
      [] partition.filesystem \in {"APFS", "HFSPlus"} ->
            "APFS/HFS+ resize is only supported on macOS"
      [] OTHER -> "Filesystem expansion not supported for"

\* expand_filesystem (expand_ntfs, expand_ext4, expand_apfs_hfs) and, when it
\* succeeds, the Complete record of the command
ExpandFilesystem ==
    /\ op = "expand"
    /\ pc = "expand_fs"
    /\ \E dry_run \in CommandOutcomes, outcome \in CommandOutcomes :
          LET kind == expand_filesystem_kind
              ran == CASE kind = "ntfsresize" ->
                            <<DriverCall("check_filesystem", "ntfsresize --no-action",
                                         <<partition.device_path>>, dry_run)>>
                            \o (IF dry_run = "success"
                                THEN <<DriverCall("resize_filesystem", "ntfsresize",
                                                  <<partition.device_path>>, outcome)>>
                                ELSE <<>>)
                       [] kind = "resize2fs" ->
                            <<DriverCall("resize_filesystem", "resize2fs",
                                         <<partition.device_path>>, outcome)>>
                       [] kind = "diskutil" ->
                            <<DriverCall("resize_filesystem", "diskutil resizeVolume",
                                         <<partition.device_path, target_size>>, outcome)>>
                       [] OTHER -> <<>>
              failed == \E i \in 1..Len(ran) : ~ran[i].ok
          IN  /\ calls' = calls \o ran
              /\ pc' = "done"
              /\ IF kind = "unsupported"
                 THEN result' = Error(expand_filesystem_error, <<>>) /\ UNCHANGED progress
                 ELSE IF failed
                 THEN /\ result' = CASE kind = "ntfsresize" /\ dry_run # "success" ->
                                          CommandError(dry_run, "NTFS dry-run failed")
                                     [] kind = "ntfsresize" ->
                                          CommandError(outcome, "NTFS resize failed")
                                     [] kind = "resize2fs" ->
                                          CommandError(outcome, "resize2fs failed")
                                     [] OTHER ->
                                          CommandError(outcome,
                                                       "diskutil resizeVolume failed")
                      /\ UNCHANGED progress
                 ELSE /\ result' = Ok("unit")
                      /\ Emit(<<ResizeProgress_complete("Partition expanded successfully!")>>)
    /\ UNCHANGED <<command_vars, platform, overflow_checks, op, partition, disk, options,
                   target_size,
                   validation, new_partition, fslog, staging>>

\* lines 95-111 of partition_commands.rs: the Validating record, discovery of
\* the partition, the CheckingFilesystem and ResizingFilesystem records
ShrinkBegin ==
    /\ op = "shrink"
    /\ pc = "start"
    /\ \E found \in BOOLEAN :
          /\ Emit(<<ResizeProgress_validating("Starting validation...")>>
                  \o (IF found
                      THEN <<ResizeProgress_checking_filesystem(
                                 "Checking filesystem integrity..."),
                             ResizeProgress_resizing_filesystem(0, "Shrinking partition")>>
                      ELSE <<>>))
          /\ pc' = IF found THEN "shrink" ELSE "done"
          /\ result' = IF found THEN result
                       ELSE Error("get_partition_info failed", <<>>)
    /\ UNCHANGED <<command_vars, platform, overflow_checks, op, partition, disk, options,
                   target_size,
                   validation, new_partition, calls, fslog, staging>>

\* a command that exits with success is still taken to have failed when its
\* output does not say so (shrink_windows, shrink_macos)
ConfirmedOutcomes == CommandOutcomes \cup {"success_unconfirmed"}

\* shrink_windows and, when it succeeds, the Complete record of the command
ShrinkWindows ==
    /\ op = "shrink"
    /\ pc = "shrink"
    /\ platform = "windows"
    /\ IF overflow_checks /\ target_size > partition.total_size
       THEN pc' = "done" /\ result' = Panic /\ UNCHANGED <<calls, progress>>
       ELSE IF ~IsSome(partition.mount_point)
       THEN /\ pc' = "done"
            /\ result' = Error("Cannot shrink unmounted partition on Windows.", <<>>)
            /\ UNCHANGED <<calls, progress>>
       ELSE \E outcome \in ConfirmedOutcomes \cup {"script_error"} :
               /\ calls' = IF outcome = "script_error" THEN calls
                           ELSE Append(calls,
                                    DriverCall("resize_table", "diskpart shrink",
                                        <<WrappingSub(partition.total_size, target_size)
                                            \div MiB>>,
                                        outcome))
               /\ pc' = "done"
               /\ result' = CASE outcome = "success" -> Ok("unit")
                              [] outcome = "script_error" -> IoError("File::create")
                              [] outcome = "success_unconfirmed" ->
                                   Error("Shrink operation may have failed.", <<Stderr>>)
                              [] OTHER -> CommandError(outcome, "Diskpart shrink failed.")
               /\ IF outcome = "success"
                  THEN Emit(<<ResizeProgress_complete("Partition shrunk successfully!")>>)
                  ELSE UNCHANGED progress
    /\ UNCHANGED <<command_vars, platform, overflow_checks, op, partition, disk, options,
                   target_size,
                   validation, new_partition, fslog, staging>>

\* shrink_macos and, when it succeeds, the Complete record of the command
ShrinkMacos ==
    /\ op = "shrink"
    /\ pc = "shrink"
    /\ platform = "macos"
    /\ \E outcome \in ConfirmedOutcomes :
          /\ calls' = Append(calls, DriverCall("resize_filesystem", "diskutil resizeVolume",
                                               <<partition.device_path, target_size>>,
                                               outcome))
          /\ pc' = "done"
          /\ result' = CASE outcome = "success" -> Ok("unit")
                         [] outcome = "success_unconfirmed" ->
                              Error("Resize operation may have failed.", <<Stderr>>)
                         [] OTHER -> CommandError(outcome, "diskutil resize failed")
          /\ IF outcome = "success"
             THEN Emit(<<ResizeProgress_complete("Partition shrunk successfully!")>>)
             ELSE UNCHANGED progress
    /\ UNCHANGED <<command_vars, platform, overflow_checks, op, partition, disk, options,
                   target_size,
                   validation, new_partition, fslog, staging>>

\* a variant of shrink_linux that leaves the mount state to the commands it runs
ShrinkLinuxUnguarded ==
    /\ op = "shrink"
    /\ pc = "shrink"
    /\ platform = "linux"
    /\ \E fsck \in CommandOutcomes, outcome \in CommandOutcomes :
          LET check == DriverCall("check_filesystem", "e2fsck -f -y",
                                  <<partition.device_path>>, fsck)
              resize == DriverCall("resize_filesystem", "resize2fs",
                                   <<partition.device_path, target_size \div 4096>>,
                                   outcome)
          IN  /\ calls' = IF fsck = "success" THEN calls \o <<check, resize>>
                          ELSE Append(calls, check)
              /\ pc' = "done"
              /\ result' = CASE fsck # "success" ->
                                  CommandError(fsck, "Filesystem check failed")
                             [] outcome # "success" ->
                                  CommandError(outcome, "resize2fs failed")
                             [] OTHER -> Ok("unit")
              /\ IF fsck = "success" /\ outcome = "success"
                 THEN Emit(<<ResizeProgress_complete("Partition shrunk successfully!")>>)
                 ELSE UNCHANGED progress
    /\ UNCHANGED <<command_vars, platform, overflow_checks, op, partition, disk, options,
                   target_size,
                   validation, new_partition, fslog, staging>>

\* shrink_linux and, when it succeeds, the Complete record of the command
ShrinkLinux ==
    /\ op = "shrink"
    /\ pc = "shrink"
    /\ platform = "linux"
    /\ IF partition.is_mounted
       THEN /\ pc' = "done"
            /\ result' = Error("Partition must be unmounted before shrinking", <<>>)
            /\ UNCHANGED <<calls, progress>>
       ELSE \E fsck \in CommandOutcomes, outcome \in CommandOutcomes :
               LET check == DriverCall("check_filesystem", "e2fsck -f -y",
                                       <<partition.device_path>>, fsck)
                   resize == DriverCall("resize_filesystem", "resize2fs",
                                        <<partition.device_path, target_size \div 4096>>,
                                        outcome)
               IN  /\ calls' = IF fsck = "success" THEN calls \o <<check, resize>>
                               ELSE Append(calls, check)
                   /\ pc' = "done"
                   /\ result' = CASE fsck # "success" ->
                                       CommandError(fsck, "Filesystem check failed")
                                  [] outcome # "success" ->
                                       CommandError(outcome, "resize2fs failed")
                                  [] OTHER -> Ok("unit")
                   /\ IF fsck = "success" /\ outcome = "success"
                      THEN Emit(<<ResizeProgress_complete("Partition shrunk successfully!")>>)
                      ELSE UNCHANGED progress
    /\ UNCHANGED <<command_vars, platform, overflow_checks, op, partition, disk, options,
                   target_size,
                   validation, new_partition, fslog, staging>>

-----------------------------------------------------------------------------
(* Specification of the orchestrators: one run of one operation on one     *)
(* build, over a snapshot and a request the caller chose.                  *)

\* extents of the partition operated on: two MiB, at the start of the disk
\* or one MiB in
RunExtents == {e \in Extents : e[1] \in {0, 1} /\ e[2] = 2}
\* snapshots with at most one other partition, of one MiB
RunLayouts == {f \in OtherLayouts : DOMAIN f \subseteq {"sda2"} /\ \A i \in DOMAIN f : f[i][2] = 1}

\* sizes a caller can ask expand or shrink for, around the partition's size
TargetSizes(p) ==
    {0, p.total_size - MiB, p.total_size, p.total_size + 1, p.total_size + MiB,
     p.total_size + 2 * MiB}

NoOptions == [target_offset |-> 0, verify_after_move |-> FALSE, backup_path |-> None]

\* a staging directory may be left behind by an earlier run
StagingStates == {[exists |-> FALSE, content |-> {}],
                  [exists |-> TRUE, content |-> {"left by an earlier run"}]}

Init ==
    /\ platform \in Platforms
    /\ overflow_checks \in BOOLEAN
    /\ op \in {"move", "expand", "shrink"}
    /\ \E e \in RunExtents, f \in RunLayouts, mounted \in BOOLEAN,
          flags \in SUBSET PartitionFlags, fs \in Filesystems :
          /\ \A i \in DOMAIN f : ~ExtentsIntersect(e, f[i])
          /\ op = "move" => fs = "NTFS"
          /\ op # "move" => flags = {} /\ f = << >>
          /\ partition = PartitionInfo("sda1", 1, e[1] * MiB, e[2] * MiB, fs,
                                       IF mounted THEN Some("mount point of sda1") ELSE None,
                                       mounted, flags)
          /\ disk = DiskInfo(DiskUnits * MiB, <<partition>> \o OthersOf(f))
    /\ IF op = "move"
       THEN /\ options \in [target_offset : TargetOffsets, verify_after_move : BOOLEAN,
                            backup_path : {None}]
            /\ target_size = 0
            /\ staging \in StagingStates
       ELSE /\ options = NoOptions
            /\ target_size \in TargetSizes(partition)
            /\ staging = [exists |-> FALSE, content |-> {}]
    /\ pc = "start"
    /\ validation = Pending
    /\ new_partition = None
    /\ progress = <<>>
    /\ calls = <<>>
    /\ fslog = <<>>
    /\ result = Pending
    /\ NoCommand

Next ==
    \/ MoveValidate
    \/ MovePrepareBackup
    \/ MoveBackup
    \/ MoveDelete
    \/ MoveCreate
    \/ MoveRestore
    \/ MoveFinish
    \/ ExpandBegin
    \/ ExpandTable
    \/ ExpandFilesystem
    \/ ShrinkBegin
    \/ ShrinkWindows
    \/ ShrinkMacos
    \/ ShrinkLinux

Spec == Init /\ [][Next]_vars

-----------------------------------------------------------------------------
(* Claims about validate_move, checked under SpecValidate *)

Returned == op = "validate_move" /\ pc = "returned"

\* the partition an error entry names, if it names one
NamedBy(e) == IF "names" \in DOMAIN e THEN Some(e.names) ELSE None

ErrorsName(v, other_partition) ==
    \E i \in 1..Len(v.errors) : NamedBy(v.errors[i]) = Some(other_partition.device_path)

\* the other partitions of the snapshot whose interval the requested target
\* interval [target_offset, target_offset + total_size) intersects
IntersectedPartitions ==
    {i \in 1..Len(disk.partitions) :
        /\ disk.partitions[i].id # partition.id
        /\ Intersects(options.target_offset,
                      options.target_offset + partition.total_size,
                      disk.partitions[i].start_offset, EndOf(disk.partitions[i]))}

TargetInBounds == options.target_offset + partition.total_size <= disk.total_size

C5_OutOfBoundsRejected ==
    Returned =>
        /\ ~TargetInBounds => (validation.tag = "Ok" /\ ~validation.val.is_valid)
        /\ options.target_offset + partition.total_size = disk.total_size =>
              (validation.tag = "Ok"
               /\ \A i \in 1..Len(validation.val.errors) :
                     validation.val.errors[i] # BoundsError)

-----------------------------------------------------------------------------
(* Claims about the orchestrators, checked under Spec *)

Done == pc = "done"
IsMove == op = "move"

Invoked(step) == \E i \in 1..Len(calls) : calls[i].step = step
Succeeded(step) == \E i \in 1..Len(calls) : calls[i].step = step /\ calls[i].ok
Emitted(phase) == \E i \in 1..Len(progress) : progress[i].phase = phase
FsCalled(call) == \E i \in 1..Len(fslog) : fslog[i].call = call
FsSucceeded(call) == \E i \in 1..Len(fslog) : fslog[i].call = call /\ fslog[i].ok

\* C1: in a run of move_partition the delete-table-entry driver call is
\* invoked only after the backup copy returned success; when the backup step
\* fails (create_dir_all error, no mount point, copy failure) the run ends
\* with an error and neither delete nor create is ever invoked.
C1_DeleteOnlyAfterBackup ==
    IsMove =>
        /\ \A i \in 1..Len(calls) :
              calls[i].step \in {"delete_table_entry", "create_table_entry"} =>
                 \E j \in 1..(i - 1) : calls[j].step = "backup" /\ calls[j].ok
        /\ (Done /\ validation.tag = "Ok" /\ validation.val.is_valid
              /\ ~Succeeded("backup")) =>
              /\ result.tag = "Err"
              /\ ~Invoked("delete_table_entry")
              /\ ~Invoked("create_table_entry")

\* C1 witness: the delete call was invoked in a move whose backup succeeded.
C1_Witness == IsMove /\ Invoked("delete_table_entry") /\ Succeeded("backup")

\* C2: validate_move is evaluated before anything else in move_partition, and
\* when it answers is_valid = false the run returns an error without any driver
\* call and without touching the staging directory.
C2_InvalidMoveDoesNothing ==
    IsMove =>
        /\ validation = Pending => (calls = <<>> /\ fslog = <<>>)
        /\ (validation.tag = "Ok" /\ ~validation.val.is_valid) =>
              /\ Done
              /\ result.tag = "Err"
              /\ calls = <<>>
              /\ fslog = <<>>
              /\ staging \in StagingStates

\* C2 witness: a move returned because validate_move answered invalid.
C2_Witness ==
    IsMove /\ Done /\ validation.tag = "Ok" /\ ~validation.val.is_valid
    /\ Len(validation.val.errors) > 0

MovePhaseRank(phase) ==
    CASE phase = "Validating" -> 1
      [] phase = "BackingUp" -> 2
      [] phase = "DeletingOldPartition" -> 3
      [] phase = "CreatingNewPartition" -> 4
      [] phase = "RestoringData" -> 5
      [] phase = "Verifying" -> 6
      [] phase = "Complete" -> 7
      [] phase = "Error" -> 8

\* C6: the phases of the records one run of move_partition emits follow the
\* order Validating, BackingUp, DeletingOldPartition, CreatingNewPartition,
\* RestoringData, Verifying, Complete: the first is Validating, none comes
\* after a later one, none between the first and the last is skipped except
\* Verifying, which a run that reaches Complete emits exactly when
\* verify_after_move is set, and Complete comes only after the restore copy
\* succeeded.
C6_PhasesInOrder ==
    IsMove =>
        /\ Len(progress) > 0 => progress[1].phase = "Validating"
        /\ \A i \in 1..Len(progress) : progress[i].phase # "Error"
        /\ \A i \in 1..(Len(progress) - 1) :
              LET here == MovePhaseRank(progress[i].phase)
                  next == MovePhaseRank(progress[i + 1].phase)
              IN  /\ here <= next
                  /\ next <= here + 1
                     \/ (progress[i].phase = "RestoringData"
                         /\ progress[i + 1].phase = "Complete")
        /\ Emitted("Verifying") => options.verify_after_move
        /\ Emitted("Complete") =>
              /\ options.verify_after_move => Emitted("Verifying")
              /\ Succeeded("restore")
              /\ progress[Len(progress)].phase = "Complete"

\* C6 witness: a run asked to verify emitted every phase up to Complete.
C6_Witness ==
    /\ IsMove /\ Done /\ options.verify_after_move
    /\ Emitted("Verifying") /\ Emitted("Complete") /\ Emitted("BackingUp")

\* C7: a record of move_partition has can_cancel = true exactly when its phase
\* is Validating or BackingUp, and once a record with can_cancel = false was
\* emitted no later record of the run has can_cancel = true.
C7_CancelWindow ==
    IsMove =>
        /\ \A i \in 1..Len(progress) :
              progress[i].can_cancel <=> progress[i].phase \in {"Validating", "BackingUp"}
        /\ \A i, j \in 1..Len(progress) :
              (i < j /\ ~progress[i].can_cancel) => ~progress[j].can_cancel

\* C7 witness: the run emitted the DeletingOldPartition record after records
\* that could be cancelled.
C7_Witness ==
    /\ IsMove
    /\ \E i, j \in 1..Len(progress) :
          /\ i < j
          /\ progress[i].can_cancel
          /\ progress[j].phase = "DeletingOldPartition"
          /\ ~progress[j].can_cancel

\* the texts of the errors a move returns before anything was deleted:
\* validation errors and ordinary io and driver errors
OrdinaryErrorTexts ==
    {"Move validation failed", "io error", "Partition must have a mount point",
     "Partition must be mounted", "Robocopy failed with exit code", "Rsync failed",
     "Failed to backup partition data", "Diskpart delete failed",
     "parted delete failed", "diskutil delete failed"}

NamesStagingPath(e) ==
    \E i \in 1..Len(e.msg.args) : e.msg.args[i] = backup_path_of(options, partition)

\* C8: when move_partition fails after the old table entry was deleted (the
\* create or the restore step failed), the error it returns is a data-at-risk
\* error, told apart from validation errors and ordinary driver errors, and it
\* carries the staging directory path of the run.
C8_DataAtRiskNamesStaging ==
    (IsMove /\ Done /\ Succeeded("delete_table_entry") /\ result.tag # "Ok") =>
        /\ result.tag = "Err"
        /\ result.msg.text \notin OrdinaryErrorTexts
        /\ NamesStagingPath(result)

\* C9: the last progress record of every run of move_partition,
\* expand_partition and shrink_partition is terminal: Complete when the
\* operation succeeded, Error when it failed.
C9_TerminalRecord ==
    Done =>
        /\ Len(progress) > 0
        /\ result.tag = "Ok" => progress[Len(progress)].phase = "Complete"
        /\ result.tag # "Ok" => progress[Len(progress)].phase = "Error"

MutatingSteps ==
    {"delete_table_entry", "create_table_entry", "resize_table", "resize_filesystem"}

\* C10: in one run of move_partition, expand_partition or shrink_partition each
\* mutating driver call (delete table entry, create table entry, resize table,
\* resize filesystem) is invoked at most once, and once a driver call reported
\* failure no further driver call is invoked and the run returns an error.
C10_NoRetryAfterFailure ==
    /\ \A step \in MutatingSteps :
          Cardinality({i \in 1..Len(calls) : calls[i].step = step}) <= 1
    /\ \A i \in 1..Len(calls) :
          ~calls[i].ok => (i = Len(calls) /\ Done /\ result.tag = "Err")

\* C10 witness: an expand whose table phase succeeded and whose filesystem
\* phase failed.
C10_Witness ==
    /\ op = "expand" /\ Done
    /\ Succeeded("resize_table")
    /\ Invoked("resize_filesystem") /\ ~Succeeded("resize_filesystem")

\* C15: the percent values of the records one run of move_partition emits
\* never decrease from one record to the next, the step from the last
\* BackingUp record to the DeletingOldPartition record included.
C15_PercentNonDecreasing ==
    IsMove =>
        \A i \in 1..(Len(progress) - 1) : progress[i].percent <= progress[i + 1].percent

\* the documented percent range of each phase of a move
PhasePercentRange(phase) ==
    CASE phase = "Validating" -> 0..0
      [] phase = "BackingUp" -> 0..40
      [] phase = "DeletingOldPartition" -> 40..40
      [] phase = "CreatingNewPartition" -> 50..50
      [] phase = "RestoringData" -> 50..90
      [] phase = "Verifying" -> 90..100
      [] phase = "Complete" -> 100..100
      [] OTHER -> 0..100

\* C16: every record of a run of move_partition has a percent inside the
\* documented range of its phase (Validating 0, BackingUp 0..40,
\* DeletingOldPartition 40, CreatingNewPartition 50, RestoringData 50..90,
\* Verifying 90..100, Complete 100); the record emitted when the backup copy
\* finishes has percent at most 40.
C16_PercentInPhaseRange ==
    IsMove =>
        \A i \in 1..Len(progress) :
            progress[i].percent \in PhasePercentRange(progress[i].phase)

-----------------------------------------------------------------------------
(* validate_expand and validate_shrink (resize/validation.rs)              *)

\* FilesystemType::supports_resize is defined in partition/types.rs; the
\* capability is taken to belong to the kinds the resize workflows handle
supports_resize(filesystem) ==
    filesystem \in {"NTFS", "Ext2", "Ext3", "Ext4", "APFS", "HFSPlus"}

TargetNotLargerError(p, requested_size) ==
    [msg |-> "Target size must be larger than current size",
     target |-> requested_size, current |-> p.total_size]
NotEnoughSpaceError(size_increase, available_space) ==
    [msg |-> "Not enough adjacent space.",
     requested |-> size_increase, available |-> available_space]
UnsupportedFilesystemError(p) ==
    [msg |-> "Filesystem type does not support resize operations",
     filesystem |-> p.filesystem]
ExpandMountedWarning ==
    [msg |-> "Partition is currently mounted. Expansion may require unmounting or system restart."]

\* the first element of a sequence with the least key (Iterator::min_by_key)
RECURSIVE min_by_start_offset(_)
min_by_start_offset(candidates) ==
    IF Len(candidates) = 0 THEN None
    ELSE LET rest == min_by_start_offset(Tail(candidates))
         IN  IF IsSome(rest) /\ Unwrap(rest).start_offset < Head(candidates).start_offset
             THEN rest
             ELSE Some(Head(candidates))

\* a variant of the search that takes any partition starting at or after the
\* start of the current one
find_next_from_start(d, current) ==
    min_by_start_offset(
        SelectSeq(d.partitions, LAMBDA q : q.start_offset >= current.start_offset))

\* find_next_partition: the partition of the disk that starts at or after the
\* end of the current one and starts first
find_next_partition(d, current) ==
    LET current_end == WrappingAdd(current.start_offset, current.total_size)
    IN  min_by_start_offset(
            SelectSeq(d.partitions, LAMBDA q : q.start_offset >= current_end))

\* a variant of the space check that also rejects an increase that fills the
\* space exactly
exceeds_or_fills_available(size_increase, available_space) ==
    size_increase >= available_space

\* the space check compares the increase with the space found
exceeds_available(size_increase, available_space) == size_increase > available_space

\* a variant of the maximum that adds the space found to the partition's end
maximum_size_from_end(p, available_space) ==
    WrappingAdd(WrappingAdd(p.start_offset, p.total_size), available_space)

\* line 89: partition.total_size + available_space
maximum_safe_size(p, available_space) == WrappingAdd(p.total_size, available_space)

\* validate_expand(partition, disk, target_size) -> Result<ValidationResult>
validate_expand(p, d, requested_size, checks) ==
    IF requested_size <= p.total_size
    THEN Ok([is_valid |-> FALSE,
             errors |-> <<TargetNotLargerError(p, requested_size)>>,
             warnings |-> <<>>,
             safe_size |-> Some(requested_size),
             minimum_size |-> Some(p.total_size),
             maximum_size |-> None,
             has_adjacent_space |-> FALSE,
             adjacent_space |-> 0])
    ELSE IF checks /\ Overflows(p.start_offset, p.total_size)
    THEN Panic
    ELSE LET partition_end == WrappingAdd(p.start_offset, p.total_size)
             next_partition == find_next_partition(d, p)
             available_space ==
                 IF IsSome(next_partition)
                 THEN SaturatingSub(Unwrap(next_partition).start_offset, partition_end)
                 ELSE SaturatingSub(d.total_size, partition_end)
             size_increase == requested_size - p.total_size
             not_enough == exceeds_available(size_increase, available_space)
             unsupported == ~supports_resize(p.filesystem)
         IN  IF checks /\ Overflows(p.total_size, available_space)
             THEN Panic
             ELSE Ok([is_valid |-> ~not_enough /\ ~unsupported,
                      errors |-> (IF not_enough
                                  THEN <<NotEnoughSpaceError(size_increase,
                                                             available_space)>>
                                  ELSE <<>>)
                                 \o (IF unsupported
                                     THEN <<UnsupportedFilesystemError(p)>>
                                     ELSE <<>>),
                      warnings |-> IF p.is_mounted THEN <<ExpandMountedWarning>> ELSE <<>>,
                      safe_size |-> Some(requested_size),
                      minimum_size |-> Some(p.total_size),
                      maximum_size |-> Some(maximum_safe_size(p, available_space)),
                      has_adjacent_space |-> available_space > 0,
                      adjacent_space |-> available_space])

(* f64 arithmetic.  A u64 does not fit the 53-bit significand of an f64, so *)
(* `as f64` rounds; the model keeps the proportion with a significand of    *)
(* MantBits bits for its word of WordBits bits.  A float is the pair        *)
(* [m, e] standing for m * 2^e.                                             *)

\* width of the significand of the float standing for f64
MantBits == 13

RECURSIVE BitLen(_)
BitLen(n) == IF n = 0 THEN 0 ELSE 1 + BitLen(n \div 2)

\* n / 2^s rounded to the nearest integer, ties to even
RoundShift(n, s) ==
    IF s = 0 THEN n
    ELSE LET q == n \div (2 ^ s)
             r == n % (2 ^ s)
             half == 2 ^ (s - 1)
         IN  IF r > half \/ (r = half /\ q % 2 = 1) THEN q + 1 ELSE q

\* the significand and exponent of an exact product or integer, rounded
RoundToFloat(n, e) ==
    LET s == IF BitLen(n) > MantBits THEN BitLen(n) - MantBits ELSE 0
    IN  [m |-> RoundShift(n, s), e |-> e + s]

\* `x as f64`
u64_as_f64(x) == RoundToFloat(x, 0)

\* the literal 1.2: the float nearest to 6/5
F64_1_2 == [m |-> (12 * (2 ^ (MantBits - 1)) + 5) \div 10, e |-> 0 - (MantBits - 1)]

\* f64 `*`
f64_mul(a, b) == RoundToFloat(a.m * b.m, a.e + b.e)

\* `x as u64`: truncation toward zero, saturating at u64::MAX
f64_as_u64(x) ==
    IF x.e >= 0
    THEN (IF x.m * (2 ^ x.e) > U64Max THEN U64Max ELSE x.m * (2 ^ x.e))
    ELSE x.m \div (2 ^ (0 - x.e))

TargetNotSmallerError(p, requested_size) ==
    [msg |-> "Target size must be smaller than current size",
     target |-> requested_size, current |-> p.total_size]
TargetTooSmallError(requested_size, used_space, min_safe_size) ==
    [msg |-> "Target size is too small.",
     target |-> requested_size, used |-> used_space, minimum |-> min_safe_size]
LittleFreeSpaceWarning ==
    [msg |-> "Target size leaves less than 100MB free space. This is not recommended."]
UnknownUsedSpaceWarning ==
    [msg |-> "Cannot determine used space. Shrink operation may fail if target size is too small."]
ShrinkMountedWarning ==
    [msg |-> "This partition is mounted. You may need to unmount it before shrinking on this OS."]
ShrinkBootWarning ==
    [msg |-> "WARNING: This is a boot partition. Shrinking it may make the system unbootable!"]
ShrinkSystemWarning ==
    [msg |-> "WARNING: This is a system partition. Shrinking it requires extreme caution!"]

\* (used_space as f64 * 1.2) as u64
min_safe_size_of(used_space) == f64_as_u64(f64_mul(u64_as_f64(used_space), F64_1_2))

\* validate_shrink(partition, target_size) -> Result<ValidationResult>.  The
\* sum used_space + 100 MiB of the free-space warning is only computed when
\* requested_size >= min_safe_size, where it cannot leave u64.
validate_shrink(p, requested_size, os) ==
    IF requested_size >= p.total_size
    THEN Ok([is_valid |-> FALSE,
             errors |-> <<TargetNotSmallerError(p, requested_size)>>,
             warnings |-> <<>>,
             safe_size |-> Some(requested_size),
             minimum_size |-> None,
             maximum_size |-> Some(p.total_size),
             has_adjacent_space |-> FALSE,
             adjacent_space |-> 0])
    ELSE LET known == IsSome(p.used_space)
             used_space == IF known THEN Unwrap(p.used_space) ELSE 0
             min_safe_size == min_safe_size_of(used_space)
             too_small == known /\ requested_size < min_safe_size
             little_free == known /\ ~too_small
                            /\ requested_size < used_space + 100 * MiB
             unsupported == ~supports_resize(p.filesystem)
         IN  Ok([is_valid |-> ~too_small /\ ~unsupported,
                 errors |-> (IF too_small
                             THEN <<TargetTooSmallError(requested_size, used_space,
                                                        min_safe_size)>>
                             ELSE <<>>)
                            \o (IF unsupported
                                THEN <<UnsupportedFilesystemError(p)>>
                                ELSE <<>>),
                 warnings |-> (IF little_free THEN <<LittleFreeSpaceWarning>> ELSE <<>>)
                              \o (IF ~known THEN <<UnknownUsedSpaceWarning>> ELSE <<>>)
                              \o (IF os # "windows" /\ p.is_mounted
                                  THEN <<ShrinkMountedWarning>> ELSE <<>>)
                              \o (IF "Boot" \in p.flags
                                  THEN <<ShrinkBootWarning>> ELSE <<>>)
                              \o (IF "System" \in p.flags
                                  THEN <<ShrinkSystemWarning>> ELSE <<>>),
                 safe_size |-> Some(requested_size),
                 minimum_size |-> IF known THEN Some(min_safe_size) ELSE None,
                 maximum_size |-> Some(p.total_size),
                 has_adjacent_space |-> FALSE,
                 adjacent_space |-> 0])

-----------------------------------------------------------------------------
(* Specification of the resize validation: a caller draws a snapshot and a *)
(* requested size and calls validate_expand or validate_shrink once.       *)

\* sizes a caller can ask an expansion for: whole MiB up to one past the
\* disk, each also one byte larger, and the top of the word
ExpandTargets ==
    {k * MiB + b : k \in 0..(DiskUnits + 1), b \in {0, 1}} \cup {U64Max}

\* largest size, in bytes, of the byte-grained shrink requests
SmallBytes == 8

\* byte counts around the safety margin of a shrink: every small count, the
\* 80-of-100 example, counts just past the precision of the float, and whole MiB
ShrinkSizes ==
    (0..SmallBytes) \cup {70, 80, 96, 97, 100}
    \cup {2 ^ MantBits + 1, 9830, 9831, 9832}
    \cup {MiB, 2 * MiB}

\* the unit of the sizes of test_validate_expand_basic (GB there), scaled to
\* the word of the model so that 500 units fit; the start offset of the test
\* (1 MiB) is the 1024th part of it
ScenarioUnit == 16384

\* the partition and the disk of test_validate_expand_basic
ScenarioPartition ==
    with_used_space(PartitionInfo("test-1", 1, ScenarioUnit \div 1024, 100 * ScenarioUnit,
                                  "NTFS", Some("C:"), TRUE, {}),
                    Some(50 * ScenarioUnit))
ScenarioDisk == DiskInfo(500 * ScenarioUnit, <<ScenarioPartition>>)

\* requests on the scenario: the one of the test, sizes around the room
\* before the end of the disk, and the size of the disk
ScenarioTargets ==
    {150 * ScenarioUnit, 450 * ScenarioUnit, 460 * ScenarioUnit,
     500 * ScenarioUnit - ScenarioUnit \div 1024,
     500 * ScenarioUnit - ScenarioUnit \div 1024 + 1,
     500 * ScenarioUnit}

InitResize ==
    /\ platform \in Platforms
    /\ op \in {"validate_expand", "validate_shrink"}
    /\ IF op = "validate_expand"
       THEN /\ overflow_checks \in BOOLEAN
            /\ platform = "linux"
            /\ \/ /\ \E e \in Extents, f \in OtherLayouts, mounted \in BOOLEAN,
                        fs \in {"Ext4", "FAT32"} :
                        /\ \A i \in DOMAIN f : ~ExtentsIntersect(e, f[i])
                        /\ partition = PartitionInfo("sda1", 1, e[1] * MiB, e[2] * MiB, fs,
                                           IF mounted THEN Some("mount point of sda1") ELSE None,
                                           mounted, {})
                        /\ disk = DiskInfo(DiskUnits * MiB, <<partition>> \o OthersOf(f))
                  /\ target_size \in ExpandTargets
               \/ /\ partition = ScenarioPartition
                  /\ disk = ScenarioDisk
                  /\ target_size \in ScenarioTargets
       ELSE /\ overflow_checks = FALSE
            /\ \E total \in ShrinkSizes, used \in {None} \cup {Some(u) : u \in ShrinkSizes},
                  mounted \in BOOLEAN, flags \in {{}, PartitionFlags},
                  fs \in {"NTFS", "FAT32"} :
                  LET p == PartitionInfo("sda1", 1, 0, total, fs,
                               IF mounted THEN Some("mount point of sda1") ELSE None,
                               mounted, flags)
                  IN  /\ partition = [p EXCEPT !.used_space = used]
                      /\ disk = DiskInfo(DiskUnits * MiB, <<partition>>)
            /\ target_size \in ShrinkSizes
    /\ options = NoOptions
    /\ pc = "call"
    /\ validation = Pending
    /\ new_partition = None
    /\ progress = <<>>
    /\ calls = <<>>
    /\ fslog = <<>>
    /\ staging = [exists |-> FALSE, content |-> {}]
    /\ result = Pending
    /\ NoCommand

CallValidateExpand ==
    /\ op = "validate_expand"
    /\ pc = "call"
    /\ validation' = validate_expand(partition, disk, target_size, overflow_checks)
    /\ pc' = "returned"
    /\ UNCHANGED <<command_vars, platform, overflow_checks, op, partition, disk, options,
                   target_size,
                   new_partition, progress, calls, fslog, staging, result>>

CallValidateShrink ==
    /\ op = "validate_shrink"
    /\ pc = "call"
    /\ validation' = validate_shrink(partition, target_size, platform)
    /\ pc' = "returned"
    /\ UNCHANGED <<command_vars, platform, overflow_checks, op, partition, disk, options,
                   target_size,
                   new_partition, progress, calls, fslog, staging, result>>

NextResize == CallValidateExpand \/ CallValidateShrink

SpecResize == InitResize /\ [][NextResize]_vars

-----------------------------------------------------------------------------
(* Claims about validate_expand and validate_shrink, checked under         *)
(* SpecResize                                                              *)

ExpandReturned == op = "validate_expand" /\ pc = "returned"
ShrinkReturned == op = "validate_shrink" /\ pc = "returned"

\* C17: for a shrink request with target_size < total_size on a
\* resize-capable filesystem with known used_space = U, validate_shrink
\* reports minimum_size = floor(1.2 * U) and answers is_valid = false when
\* target_size < 1.2 * U and is_valid = true when target_size >= 1.2 * U,
\* whatever the mount state and the flags.
C17_ShrinkSafetyMargin ==
    (/\ ShrinkReturned
     /\ target_size < partition.total_size
     /\ supports_resize(partition.filesystem)
     /\ IsSome(partition.used_space)) =>
        LET U == Unwrap(partition.used_space)
        IN  /\ validation.tag = "Ok"
            /\ validation.val.minimum_size = Some((12 * U) \div 10)
            /\ validation.val.is_valid <=> (10 * target_size >= 12 * U)

\* the partitions of the snapshot that start at or after the end of the one
\* operated on
PartitionsAfter ==
    {i \in 1..Len(disk.partitions) :
        disk.partitions[i].start_offset >= EndOf(partition)}

\* the space between the end of the partition and the first partition after
\* it, or the end of the disk
ExpectedAdjacentSpace ==
    IF PartitionsAfter = {}
    THEN disk.total_size - EndOf(partition)
    ELSE (CHOOSE s \in {disk.partitions[i].start_offset : i \in PartitionsAfter} :
             \A i \in PartitionsAfter : s <= disk.partitions[i].start_offset)
         - EndOf(partition)

\* C18: validate_expand answers is_valid = true exactly when target_size >
\* total_size, the increase target_size - total_size is at most the
\* adjacent_space it reports, and the filesystem can be resized; an increase
\* equal to adjacent_space is valid, and a mounted partition changes nothing
\* but the warnings.
C18_ExpandValidIff ==
    ExpandReturned =>
        /\ validation.tag = "Ok"
        /\ validation.val.is_valid <=>
              /\ target_size > partition.total_size
              /\ target_size - partition.total_size <= validation.val.adjacent_space
              /\ supports_resize(partition.filesystem)
        /\ (partition.is_mounted /\ target_size > partition.total_size) =>
              validation.val.warnings = <<ExpandMountedWarning>>
        /\ ~partition.is_mounted => validation.val.warnings = <<>>

\* C18 witness: a mounted partition was asked to grow by exactly the space
\* next to it and the request was found valid, with the warning.
C18_Witness ==
    /\ ExpandReturned
    /\ partition.is_mounted
    /\ target_size > partition.total_size
    /\ validation.val.adjacent_space > 0
    /\ target_size - partition.total_size = validation.val.adjacent_space
    /\ validation.val.is_valid
    /\ validation.val.warnings = <<ExpandMountedWarning>>

\* C19: for target_size > total_size the adjacent_space validate_expand
\* reports is the distance from the end of the partition to the start of the
\* partition with the least start_offset at or after that end, or to the end
\* of the disk when there is none; has_adjacent_space holds exactly when
\* adjacent_space > 0; partitions that start before the end do not count.
C19_AdjacentSpace ==
    (ExpandReturned /\ target_size > partition.total_size) =>
        /\ validation.tag = "Ok"
        /\ validation.val.adjacent_space = ExpectedAdjacentSpace
        /\ validation.val.has_adjacent_space <=> validation.val.adjacent_space > 0

\* C19 witness: one partition lies before the one operated on, another after
\* it with a gap, and the gap was reported.
C19_Witness ==
    /\ ExpandReturned /\ target_size > partition.total_size
    /\ \E i, j \in 1..Len(disk.partitions) :
          /\ disk.partitions[i].start_offset < partition.start_offset
          /\ disk.partitions[j].start_offset > EndOf(partition)
          /\ validation.val.adjacent_space
                = disk.partitions[j].start_offset - EndOf(partition)
    /\ validation.val.has_adjacent_space

\* no other partition of the snapshot starts at or after the end of the one
\* operated on
LastOnDisk ==
    \A i \in PartitionsAfter : disk.partitions[i].id = partition.id

\* C20 as stated: for a partition with a resize-capable filesystem and no
\* other partition after it on a disk that ends at E = disk.total_size,
\* validate_expand finds every expansion to a target_size <= E valid and
\* reports maximum_size = E, whatever the start_offset.
C20_ExpandToDiskEnd ==
    (/\ ExpandReturned
     /\ supports_resize(partition.filesystem)
     /\ LastOnDisk
     /\ target_size > partition.total_size
     /\ target_size <= disk.total_size) =>
        /\ validation.tag = "Ok"
        /\ validation.val.is_valid
        /\ validation.val.maximum_size = Some(disk.total_size)

\* C20 amended: for a partition of non-zero size with a resize-capable
\* filesystem and no other partition after it on a disk that ends at
\* E = disk.total_size, validate_expand reports maximum_size =
\* E - start_offset for every target_size > total_size, and finds the
\* expansion valid exactly when target_size <= E - start_offset.
C20_ExpandToRoomBeforeDiskEnd ==
    (/\ ExpandReturned
     /\ supports_resize(partition.filesystem)
     /\ LastOnDisk
     /\ partition.total_size > 0
     /\ target_size > partition.total_size) =>
        /\ validation.tag = "Ok"
        /\ validation.val.maximum_size = Some(disk.total_size - partition.start_offset)
        /\ validation.val.is_valid <=>
              target_size <= disk.total_size - partition.start_offset

\* C20 witness: a partition that does not start at the start of the disk was
\* found expandable to exactly the room up to the end of the disk.
C20_Witness ==
    /\ ExpandReturned
    /\ supports_resize(partition.filesystem)
    /\ LastOnDisk
    /\ partition.total_size > 0
    /\ partition.start_offset > 0
    /\ target_size > partition.total_size
    /\ target_size = disk.total_size - partition.start_offset
    /\ validation.val.is_valid
    /\ validation.val.maximum_size = Some(target_size)

-----------------------------------------------------------------------------
(* Further claims about the orchestrators, checked under Spec *)

IsResize == op \in {"expand", "shrink"}

\* what the validation function of the resize operation answers for the
\* request of this run
ResizeValidation ==
    IF op = "expand"
    THEN validate_expand(partition, disk, target_size, overflow_checks)
    ELSE validate_shrink(partition, target_size, platform)

\* C14: expand_partition and shrink_partition evaluate validate_expand /
\* validate_shrink on the discovered partition before any driver call, and
\* when the answer is invalid they return an error without any driver call.
C14_InvalidResizeDoesNothing ==
    IsResize =>
        /\ calls # <<>> => validation.tag = "Ok"
        /\ (ResizeValidation.tag = "Ok" /\ ~ResizeValidation.val.is_valid) =>
              /\ calls = <<>>
              /\ Done => result.tag = "Err"

-----------------------------------------------------------------------------
(* execute_partition_moves (partition_commands.rs): the operations of a    *)
(* plan, each on a snapshot discovered before it.  The disk is outside the *)
(* program: `table` is what discovery finds between two operations, and a  *)
(* finished run of move_partition changes it by the driver calls that      *)
(* succeeded.                                                              *)

\* MoveOperation; from_offset is not read by execute_partition_moves
MoveOperation(partition_id, to_offset) ==
    [partition_id |-> partition_id, to_offset |-> to_offset]

\* discovery of one partition: the windows build reads the starting offset
\* and the boot flag, the linux and macos builds report start_offset 0 and no
\* flags
discovered_partition(p, os) ==
    IF os = "windows"
    THEN [p EXCEPT !.flags = p.flags \cap {"Boot"}]
    ELSE [p EXCEPT !.start_offset = 0, !.flags = {}]

\* get_all_disks: the snapshot of the disk
get_all_disks(device, os) ==
    [device EXCEPT !.partitions =
        [k \in 1..Len(device.partitions) |-> discovered_partition(device.partitions[k], os)]]

\* disk.partitions.iter().find(|p| p.id == op.partition_id)
find_partition(d, partition_id) ==
    LET found == SelectSeq(d.partitions, LAMBDA q : q.id = partition_id)
    IN  IF Len(found) = 0 THEN None ELSE Some(Head(found))

\* the table entry `create partition primary size=<MB> offset=<KB>`,
\* `format fs=ntfs quick`, `assign` make
created_partition(p, target_offset) ==
    [p EXCEPT !.start_offset = (target_offset \div 1024) * 1024,
              !.total_size = (p.total_size \div MiB) * MiB,
              !.filesystem = "NTFS",
              !.used_space = None]

\* the disk after a run of move_partition on partition p: the entry is gone
\* when the delete call succeeded and is back at the target when the create
\* call succeeded
table_after_move(device, p, opts, driver_calls) ==
    LET did(step) == \E k \in 1..Len(driver_calls) :
                        driver_calls[k].step = step /\ driver_calls[k].ok
        kept == IF did("delete_table_entry")
                THEN SelectSeq(device.partitions, LAMBDA q : q.id # p.id)
                ELSE device.partitions
        entry == SelectSeq(device.partitions, LAMBDA q : q.id = p.id)
    IN  [device EXCEPT !.partitions =
            IF did("create_table_entry")
            THEN kept \o <<created_partition(Head(entry), opts.target_offset)>>
            ELSE kept]

\* a variant of the loop head that discovers the disk once, before the first
\* operation, and keeps that snapshot
PlanDiscoverOnce ==
    /\ op = "move"
    /\ pc = "discover"
    /\ LET move_op == move_operations[op_index + 1]
           disks == IF op_index = 0 THEN get_all_disks(table, platform) ELSE disk
           target_partition == find_partition(disks, move_op.partition_id)
       IN  /\ IsSome(target_partition)
           /\ partition' = Unwrap(target_partition)
           /\ disk' = disks
           /\ options' = [target_offset |-> move_op.to_offset,
                          verify_after_move |-> TRUE, backup_path |-> None]
           /\ snapshots' = Append(snapshots, disks)
           /\ pc' = "start"
           /\ validation' = Pending
           /\ new_partition' = None
           /\ calls' = <<>>
           /\ fslog' = <<>>
           /\ result' = Pending
    /\ UNCHANGED <<platform, overflow_checks, op, target_size, progress, staging,
                   move_operations, op_index, table, cancel_request, other,
                   assigned_mount>>

\* lines 205-229: fresh disk info, the disk and the partition of the
\* operation, the options of the move
PlanDiscover ==
    /\ op = "move"
    /\ pc = "discover"
    /\ \E discovered \in BOOLEAN :
          LET move_op == move_operations[op_index + 1]
              disks == get_all_disks(table, platform)
              target_partition == find_partition(disks, move_op.partition_id)
          IN  IF discovered /\ IsSome(target_partition)
              THEN /\ partition' = Unwrap(target_partition)
                   /\ disk' = disks
                   /\ options' = [target_offset |-> move_op.to_offset,
                                  verify_after_move |-> TRUE, backup_path |-> None]
                   /\ snapshots' = Append(snapshots, disks)
                   /\ pc' = "start"
                   /\ validation' = Pending
                   /\ new_partition' = None
                   /\ calls' = <<>>
                   /\ fslog' = <<>>
                   /\ result' = Pending
              ELSE /\ pc' = "returned"
                   /\ result' = IF discovered
                                THEN Error("Partition not found",
                                           <<[id |-> move_op.partition_id]>>)
                                ELSE Error("get_all_disks failed", <<>>)
                   /\ UNCHANGED <<partition, disk, options, snapshots, validation,
                                  new_partition, calls, fslog>>
    /\ UNCHANGED <<platform, overflow_checks, op, target_size, progress, staging,
                   move_operations, op_index, table, cancel_request, other,
                   assigned_mount>>

\* a variant of the loop that goes on to the next operation after a failed
\* move and reports success at the end of the plan
PlanAdvanceContinuing ==
    /\ op = "move"
    /\ pc = "done"
    /\ Len(move_operations) > 0
    /\ table' = table_after_move(table, partition, options, calls)
    /\ op_index' = op_index + 1
    /\ pc' = IF op_index + 1 < Len(move_operations) THEN "discover" ELSE "returned"
    /\ result' = IF op_index + 1 < Len(move_operations) THEN result
                 ELSE Ok("All partition moves completed successfully!")
    /\ UNCHANGED <<platform, overflow_checks, op, partition, disk, options, target_size,
                   validation, new_partition, progress, calls, fslog, staging,
                   move_operations, snapshots, cancel_request, other,
                   assigned_mount>>

\* lines 264-269: the move is awaited; its error ends the command, its
\* success lets the loop go on or the command return
PlanAdvance ==
    /\ op = "move"
    /\ pc = "done"
    /\ Len(move_operations) > 0
    /\ table' = table_after_move(table, partition, options, calls)
    /\ IF result.tag = "Ok"
       THEN /\ op_index' = op_index + 1
            /\ pc' = IF op_index + 1 < Len(move_operations) THEN "discover" ELSE "returned"
            /\ result' = IF op_index + 1 < Len(move_operations) THEN result
                         ELSE Ok("All partition moves completed successfully!")
       ELSE /\ pc' = "returned"
            /\ UNCHANGED <<op_index, result>>
    /\ UNCHANGED <<platform, overflow_checks, op, partition, disk, options, target_size,
                   validation, new_partition, progress, calls, fslog, staging,
                   move_operations, snapshots, cancel_request, other,
                   assigned_mount>>

\* the user asks to cancel while a move is running.  No command takes such a
\* request and move_partition has no input for it: the request is recorded
\* with the can_cancel of the record shown last, and nothing else changes
RequestCancel ==
    /\ op = "move"
    /\ pc \notin {"discover", "done", "returned"}
    /\ cancel_request = None
    /\ Len(progress) > 0
    /\ cancel_request' = Some([after |-> Len(progress),
                               can_cancel |-> progress[Len(progress)].can_cancel])
    /\ UNCHANGED <<platform, overflow_checks, op, partition, disk, options, target_size,
                   pc, validation, new_partition, progress, calls, fslog, staging, result,
                   move_operations, op_index, table, snapshots, other,
                   assigned_mount>>

\* longest plan given to execute_partition_moves
MaxPlanLen == 2

\* a mounted NTFS data partition a plan can move
PlanPartition(id, e) ==
    PartitionInfo(id, PartitionNumber(id), e[1] * MiB, e[2] * MiB, "NTFS",
                  Some(<<"mount point of", id>>), TRUE, {})

\* disks of two partitions of one MiB each, at any two places
PlanTables ==
    {DiskInfo(DiskUnits * MiB,
              <<PlanPartition("sda1", <<a, 1>>), PlanPartition("sda2", <<b, 1>>)>>) :
        <<a, b>> \in {x \in (0..(DiskUnits - 1)) \X (0..(DiskUnits - 1)) : x[1] # x[2]}}

\* the operations a plan can hold: either partition to the start of the disk,
\* one MiB in, or the last MiB
PlanOperations ==
    {MoveOperation(id, k * MiB) : id \in {"sda1", "sda2"}, k \in {0, 1, DiskUnits - 1}}

Plans == UNION {[1..n -> PlanOperations] : n \in 1..MaxPlanLen}

InitPlan ==
    /\ platform \in Platforms
    /\ overflow_checks = FALSE
    /\ op = "move"
    /\ table \in PlanTables
    /\ move_operations \in Plans
    /\ op_index = 0
    /\ snapshots = <<>>
    /\ cancel_request = None
    /\ other = [pc |-> "idle"]
    /\ assigned_mount = "unassigned"
    /\ partition = table.partitions[1]
    /\ disk = table
    /\ options = NoOptions
    /\ target_size = 0
    /\ pc = "discover"
    /\ validation = Pending
    /\ new_partition = None
    /\ progress = <<>>
    /\ calls = <<>>
    /\ fslog = <<>>
    /\ staging = [exists |-> FALSE, content |-> {}]
    /\ result = Pending

NextPlan ==
    \/ PlanDiscover
    \/ MoveValidate
    \/ MovePrepareBackup
    \/ MoveBackup
    \/ MoveDelete
    \/ MoveCreate
    \/ MoveRestore
    \/ MoveFinish
    \/ PlanAdvance

SpecPlan == InitPlan /\ [][NextPlan]_vars

-----------------------------------------------------------------------------
(* Claims about execute_partition_moves, checked under SpecPlan *)

InPlan == op = "move" /\ Len(move_operations) > 0
\* a run of move_partition has been given its snapshot and has not been
\* taken back by the loop
RunStarted == pc \notin {"discover", "returned"}

\* C11: execute_partition_moves runs the operations of a plan one after
\* another, operation i+1 starting only after operation i returned, and
\* discovers the disk afresh before each: the snapshot and the validate_move
\* answer of an operation are those of the disk as the operations before it
\* left it, never those of an earlier snapshot.
C11_FreshSnapshotPerOperation ==
    InPlan =>
        /\ op_index <= Len(move_operations)
        /\ Len(snapshots) \in {op_index, op_index + 1}
        /\ RunStarted =>
              /\ Len(snapshots) = op_index + 1
              /\ disk = get_all_disks(table, platform)
              /\ snapshots[op_index + 1] = disk
              /\ options.target_offset = move_operations[op_index + 1].to_offset
              /\ find_partition(disk, move_operations[op_index + 1].partition_id)
                    = Some(partition)
              /\ validation # Pending =>
                    validation = validate_move(partition, get_all_disks(table, platform),
                                               move_operations[op_index + 1].to_offset,
                                               overflow_checks)

\* C11 witness: the second operation of a plan was found valid on the disk
\* the first one left, where the snapshot of the first operation would have
\* made it invalid.
C11_Witness ==
    /\ InPlan /\ RunStarted
    /\ op_index = 1
    /\ snapshots[1] # snapshots[2]
    /\ validation.tag = "Ok" /\ validation.val.is_valid
    /\ LET stale == find_partition(snapshots[1], partition.id)
       IN  /\ IsSome(stale)
           /\ ~validate_move(Unwrap(stale), snapshots[1], options.target_offset,
                             overflow_checks).val.is_valid

-----------------------------------------------------------------------------
(* Cancellation: one run of an operation during which the user may ask to  *)
(* cancel.                                                                 *)

NextCancel == Next \/ RequestCancel

SpecCancel == Init /\ [][NextCancel]_vars

\* C13: a cancellation asked for while the record shown last has
\* can_cancel = true (Validating or BackingUp) stops the move before the old
\* partition's table entry is deleted; one asked for while can_cancel = false
\* does not interrupt the run, which goes on to Complete or to an error.
C13_CancelHonoured ==
    (IsMove /\ IsSome(cancel_request)) =>
        /\ Unwrap(cancel_request).can_cancel => ~Invoked("delete_table_entry")
        /\ (~Unwrap(cancel_request).can_cancel /\ Done) => result.tag \in {"Ok", "Err"}

-----------------------------------------------------------------------------
(* Concurrency: the commands are async functions the application runs as  *)
(* they are invoked; a second command for a partition of the same disk can *)
(* be invoked while the first one runs.  The second one is an              *)
(* expand_partition command, followed through its discovery and its call   *)
(* of the expand workflow.                                                 *)

\* lines 64-69 of partition_commands.rs: the second command takes its snapshot
OtherDiscover ==
    /\ other.pc = "idle"
    /\ other' = [pc |-> "discovered", snapshot |-> table]
    /\ UNCHANGED <<platform, overflow_checks, op, partition, disk, options, target_size,
                   pc, validation, new_partition, progress, calls, fslog, staging, result,
                   move_operations, op_index, table, snapshots, cancel_request,
                   assigned_mount>>

\* lines 78-85: the second command runs the expand workflow and returns
OtherExpand ==
    /\ other.pc = "discovered"
    /\ \E outcome \in CommandOutcomes :
          other' = [pc |-> "returned", snapshot |-> other.snapshot,
                    ok |-> outcome = "success"]
    /\ UNCHANGED <<platform, overflow_checks, op, partition, disk, options, target_size,
                   pc, validation, new_partition, progress, calls, fslog, staging, result,
                   move_operations, op_index, table, snapshots, cancel_request,
                   assigned_mount>>

NextConcurrent == Next \/ OtherDiscover \/ OtherExpand

SpecConcurrent == Init /\ [][NextConcurrent]_vars

\* the first command has begun and has not returned
FirstInFlight == pc \notin {"start", "done"}
\* the second command holds a snapshot and has not returned
SecondInFlight == other.pc = "discovered"

\* C12: at most one mutating operation is in flight per disk: a second
\* command for the same disk takes its snapshot and makes its driver calls
\* only when the first has finished.
C12_OneMutationPerDisk == ~(FirstInFlight /\ SecondInFlight)

-----------------------------------------------------------------------------
(* Further claims about validate_expand and validate_shrink, checked under *)
(* SpecResize                                                              *)

\* validate_expand returned for a request on the scenario of the test
ScenarioReturned ==
    ExpandReturned /\ partition = ScenarioPartition /\ disk = ScenarioDisk

\* the space between the end of the scenario's partition and the end of its
\* disk: 400 units less the start offset
ScenarioRoom == 400 * ScenarioUnit - ScenarioPartition.start_offset

HasError(v, msg) == \E i \in 1..Len(v.errors) : v.errors[i].msg = msg
HasWarning(v, w) == \E i \in 1..Len(v.warnings) : v.warnings[i] = w

\* C21 as stated: on a disk of 500 units holding only partition A at a small
\* non-zero start offset with size 100 units, validate_expand(A, disk, 450
\* units) is valid with adjacent_space = 400 units less the start offset, and
\* validate_expand(A, disk, 460 units) is invalid for exceeding the adjacent
\* space.
C21_ScenarioRejects460 ==
    ScenarioReturned =>
        /\ validation.tag = "Ok"
        /\ target_size = 450 * ScenarioUnit =>
              (validation.val.is_valid /\ validation.val.adjacent_space = ScenarioRoom)
        /\ target_size = 460 * ScenarioUnit =>
              (~validation.val.is_valid
               /\ HasError(validation.val, "Not enough adjacent space."))

\* C21 amended: on that disk validate_expand(A, disk, 450 units) and
\* validate_expand(A, disk, 460 units) are both valid with adjacent_space =
\* 400 units less the start offset; a request is invalid for exceeding the
\* adjacent space exactly when target_size > 500 units less the start offset,
\* as is a request for 500 units.
C21_ScenarioAccepts460 ==
    ScenarioReturned =>
        /\ validation.tag = "Ok"
        /\ validation.val.adjacent_space = ScenarioRoom
        /\ target_size \in {450 * ScenarioUnit, 460 * ScenarioUnit} =>
              validation.val.is_valid
        /\ validation.val.is_valid <=>
              target_size <= 500 * ScenarioUnit - ScenarioPartition.start_offset
        /\ ~validation.val.is_valid <=>
              HasError(validation.val, "Not enough adjacent space.")
        /\ target_size = 500 * ScenarioUnit => ~validation.val.is_valid

\* C21 witness: the request for 460 units on the scenario was found valid.
C21_Witness ==
    /\ ScenarioReturned
    /\ ScenarioPartition.start_offset > 0
    /\ target_size = 460 * ScenarioUnit
    /\ validation.val.is_valid
    /\ validation.val.adjacent_space = ScenarioRoom

\* C22: every result of validate_expand carries maximum_size =
\* partition.total_size + adjacent_space, with adjacent_space and
\* has_adjacent_space computed from the disk, whatever the requested
\* target_size, also when the request is rejected because target_size <=
\* partition.total_size.
C22_MaximumAlwaysComputed ==
    (ExpandReturned /\ validation.tag = "Ok") =>
        /\ validation.val.adjacent_space = ExpectedAdjacentSpace
        /\ validation.val.has_adjacent_space <=> ExpectedAdjacentSpace > 0
        /\ validation.val.maximum_size
              = Some(partition.total_size + validation.val.adjacent_space)

\* C25: for a validate_shrink call with known used_space and target_size <
\* partition.total_size the result has the little-free-space warning whenever
\* target_size - used_space < 100 MiB, also when the request is rejected as
\* below the minimum safe size.
C25_LittleFreeSpaceWarned ==
    (/\ ShrinkReturned
     /\ IsSome(partition.used_space)
     /\ target_size < partition.total_size
     /\ target_size - Unwrap(partition.used_space) < 100 * MiB) =>
        /\ validation.tag = "Ok"
        /\ HasWarning(validation.val, LittleFreeSpaceWarning)

\* C26: validate_shrink answers is_valid = true exactly when target_size <
\* partition.total_size, used_space is unknown or target_size >=
\* floor(1.2 * used_space), and the filesystem can be resized; an unknown
\* used_space, a mounted partition and the Boot and System flags only add
\* warnings.
C26_ShrinkValidIff ==
    ShrinkReturned =>
        /\ validation.tag = "Ok"
        /\ validation.val.is_valid <=>
              /\ target_size < partition.total_size
              /\ \/ ~IsSome(partition.used_space)
                 \/ target_size >= (12 * Unwrap(partition.used_space)) \div 10
              /\ supports_resize(partition.filesystem)

-----------------------------------------------------------------------------
(* Further claims about validate_move, checked under SpecValidate *)

MountedSystemOrBoot ==
    partition.is_mounted /\ ("Boot" \in partition.flags \/ "System" \in partition.flags)

\* what the claim says of the mount state and the flags of a returned result
MountRuleHolds ==
    /\ validation.tag = "Ok"
    /\ ~validation.val.is_valid <=> MountedSystemOrBoot
    /\ partition.is_mounted => HasWarning(validation.val, MountedWarning)
    /\ "Boot" \in partition.flags => HasWarning(validation.val, BootWarning)
    /\ "System" \in partition.flags => HasWarning(validation.val, SystemWarning)

C24_WarningsAlways ==
    (Returned /\ validation.tag = "Ok") =>
        /\ HasWarning(validation.val, BackupSpaceWarning(partition))
        /\ "Boot" \in partition.flags => HasWarning(validation.val, BootWarning)
        /\ "System" \in partition.flags => HasWarning(validation.val, SystemWarning)

-----------------------------------------------------------------------------
(* Claims about the expand and shrink workflows, checked under Spec *)

IsExpand == op = "expand"
IsShrink == op = "shrink"

\* the driver calls of the filesystem phase of an expansion
FilesystemSteps == {"check_filesystem", "resize_filesystem"}

\* C27: expand_partition runs two phases in order: a driver call of the
\* filesystem phase is invoked only after the table phase returned success
\* (on macos the table phase is empty and always does); when the table call
\* failed no filesystem call is ever invoked; when a filesystem call failed
\* no call follows it, the table is not resized a second time, and the
\* operation returns an error.
C27_ExpandPhasesInOrder ==
    IsExpand =>
        /\ \A i \in 1..Len(calls) :
              calls[i].step \in FilesystemSteps =>
                  \/ platform = "macos"
                  \/ \E j \in 1..(i - 1) : calls[j].step = "resize_table" /\ calls[j].ok
        /\ pc = "expand_fs" => \A i \in 1..Len(calls) : calls[i].ok
        /\ \A i \in 1..Len(calls) :
              (calls[i].step = "resize_table" /\ ~calls[i].ok) =>
                  /\ i = Len(calls)
                  /\ ~Invoked("resize_filesystem") /\ ~Invoked("check_filesystem")
                  /\ Done /\ result.tag = "Err"
        /\ \A i \in 1..Len(calls) :
              (calls[i].step \in FilesystemSteps /\ ~calls[i].ok) =>
                  /\ i = Len(calls)
                  /\ Cardinality({j \in 1..Len(calls) : calls[j].step = "resize_table"}) <= 1
                  /\ Done /\ result.tag = "Err"

\* C27 witness: on linux the table was extended, the filesystem call then
\* failed, and the operation returned the error with the table left
\* extended.
C27_Witness ==
    /\ IsExpand /\ Done /\ platform = "linux"
    /\ Len(calls) = 2
    /\ calls[1].step = "resize_table" /\ calls[1].ok
    /\ calls[2].step = "resize_filesystem" /\ ~calls[2].ok
    /\ result.tag = "Err"

\* a driver call that changes the size of the table entry succeeded: a call
\* of the table step, or diskutil resizeVolume, which resizes the volume and
\* its table entry together
TableEntryResized ==
    \E i \in 1..Len(calls) :
        /\ calls[i].ok
        /\ calls[i].step = "resize_table" \/ calls[i].cmd = "diskutil resizeVolume"

\* C28: in shrink_partition the filesystem goes first: for an ext-family
\* filesystem (the linux workflow) the forced check runs before the resize
\* call, which is never invoked when the check failed; the table entry is
\* shrunk only after the filesystem resize succeeded; and a shrink that
\* returned success has brought the table entry to target_size.
C28_ShrinkFilesystemFirst ==
    IsShrink =>
        /\ platform = "linux" =>
              \A i \in 1..Len(calls) :
                  calls[i].step = "resize_filesystem" =>
                      \E j \in 1..(i - 1) :
                          calls[j].step = "check_filesystem" /\ calls[j].ok
        /\ platform = "linux" =>
              \A i \in 1..Len(calls) :
                  calls[i].step = "resize_table" =>
                      \E j \in 1..(i - 1) :
                          calls[j].step = "resize_filesystem" /\ calls[j].ok
        /\ (Done /\ result.tag = "Ok" /\ target_size < partition.total_size) =>
              TableEntryResized

\* the platforms whose shrink driver takes a mounted volume: diskpart shrinks
\* the volume behind a drive letter and diskutil resizes online; resize2fs
\* does not shrink a mounted filesystem
shrinks_live_volumes(os) == os \in {"windows", "macos"}

C30_ExtendByIncrease ==
    IsExpand =>
        LET size_increase_mb == SaturatingSub(target_size, partition.total_size) \div MiB
        IN  /\ \A i \in 1..Len(calls) :
                  calls[i].step = "resize_table" => calls[i].arg = <<size_increase_mb>>
            /\ size_increase_mb = 0 => ~Invoked("resize_table")

-----------------------------------------------------------------------------
(* Further claims about move_partition, checked under Spec *)

\* the restore call of the run copied to the mount point the new volume has
\* on the disk: the letter `assign` gave it is the one the snapshot records
\* and the call names that one
RestoreToNewVolume(i) ==
    /\ assigned_mount = "snapshot letter"
    /\ calls[i].arg[2] = Unwrap(partition.mount_point)

\* C31: in the RestoringData phase the staged content is copied to the mount
\* point of the partition the create step made at target_offset, not to the
\* one the pre-move snapshot records for the old partition; when the new
\* partition has no mount point the restore fails and the staging directory
\* is kept.
C31_RestoreToNewMount ==
    IsMove =>
        /\ \A i \in 1..Len(calls) : calls[i].step = "restore" => RestoreToNewVolume(i)
        /\ (assigned_mount = "no letter" /\ Done) =>
              /\ ~Invoked("restore")
              /\ result.tag = "Err"
              /\ staging.exists

\* the platforms on which the create step can succeed:
\* create_partition_at_offset returns an error on every other one
create_can_succeed(os) == os = "windows"

\* C34: move_partition never deletes the old partition's table entry on a
\* platform where the create step cannot succeed: on every platform a run
\* whose validation, backup and delete succeeded and none of whose driver or
\* filesystem calls failed ends with Complete and a partition at
\* target_offset, not with an error after the old partition is gone.
C34_NoDeleteWithoutCreate ==
    IsMove =>
        /\ Invoked("delete_table_entry") => create_can_succeed(platform)
        /\ (/\ Done
            /\ Succeeded("delete_table_entry")
            /\ \A i \in 1..Len(calls) : calls[i].ok
            /\ \A i \in 1..Len(fslog) : fslog[i].ok
            /\ result # IoError("fs::write")) =>
              /\ result.tag = "Ok"
              /\ Emitted("Complete")
              /\ IsSome(new_partition)
              /\ Unwrap(new_partition).start_offset = options.target_offset

\* C35: expand_partition never extends the table entry of a partition whose
\* filesystem phase is known beforehand to be unsupported (a kind outside
\* NTFS, ext2/3/4, APFS and HFS+, or one not supported on the running
\* platform): the operation fails before the table call.
C35_NoExtendWhenUnsupported ==
    (IsExpand /\ expand_filesystem_kind = "unsupported") =>
        /\ ~Invoked("resize_table")
        /\ Done => result.tag = "Err"

\* C36: when the restore step of a move begins, the staging directory holds
\* exactly what was backed up from the partition in this run: content left
\* under the default path by an earlier failed move of a partition with the
\* same number is not there to be restored.
C36_StagingOnlyThisRun ==
    (IsMove /\ pc = "restore") => staging.content = {partition.id}

\* C37: in the linux shrink workflow the size asked of the filesystem resize
\* call is target_size rounded down to a whole block of 4096 bytes: the
\* number passed with the suffix of 512-byte sectors, times 512, lies in
\* (target_size - 4096, target_size].
C37_ShrinkSizeInSectors ==
    (IsShrink /\ platform = "linux") =>
        \A i \in 1..Len(calls) :
            calls[i].step = "resize_filesystem" =>
                /\ calls[i].arg[2] * 512 <= target_size
                /\ calls[i].arg[2] * 512 > target_size - 4096


-----------------------------------------------------------------------------
(* The overlap loop reports real intersections only, checked under         *)
(* SpecValidate                                                            *)

PositiveSize(p) == p.total_size > 0

\* C32: when the moved partition and another partition p both have positive
\* size, validate_move names p in an overlap error only if the half-open
\* intervals [target_offset, target_offset + total_size) and [p.start, p.end)
\* intersect: a target that ends where p starts, or starts where p ends, is
\* not flagged, and no error names the moved partition itself.
C32_OverlapOnlyIfIntersects ==
    (Returned /\ validation.tag = "Ok" /\ PositiveSize(partition)) =>
        /\ ~ErrorsName(validation.val, partition)
        /\ \A i \in 1..Len(disk.partitions) :
              (/\ disk.partitions[i].id # partition.id
               /\ PositiveSize(disk.partitions[i])
               /\ ErrorsName(validation.val, disk.partitions[i]))
                  => i \in IntersectedPartitions


-----------------------------------------------------------------------------
(* A failed operation ends the plan, checked under SpecPlan                *)

\* the runs of move_partition that emitted their Complete record
CompletedRuns == Cardinality({i \in 1..Len(progress) : progress[i].phase = "Complete"})

PlanReturned == InPlan /\ pc = "returned"

\* C38: when operation i of a plan fails (its partition is not in the fresh
\* snapshot, its validation is invalid, or a phase of its move fails), the
\* command returns an error and the operations after i are never started: no
\* snapshot is taken and no driver call is made for them.  The success
\* message is returned only when every operation of the plan reached
\* Complete.
C38_FailureEndsPlan ==
    InPlan =>
        /\ op_index <= CompletedRuns
        /\ PlanReturned =>
              /\ result.tag \in {"Ok", "Err"}
              /\ result.tag = "Ok" <=> op_index = Len(move_operations)
              /\ result.tag = "Ok" =>
                    /\ result = Ok("All partition moves completed successfully!")
                    /\ CompletedRuns = Len(move_operations)
              /\ result.tag = "Err" =>
                    /\ op_index < Len(move_operations)
                    /\ Len(snapshots) <= op_index + 1
                    /\ CompletedRuns = op_index

\* C38 witness: the first operation of a plan of two deleted the old entry
\* and then failed; the command returned its error with one snapshot taken
\* and the second operation not started.
C38_Witness ==
    /\ PlanReturned
    /\ Len(move_operations) = 2
    /\ op_index = 0
    /\ result.tag = "Err"
    /\ Len(snapshots) = 1
    /\ Succeeded("delete_table_entry")
    /\ CompletedRuns = 0


-----------------------------------------------------------------------------
(* The three validation functions together: a caller draws a snapshot and  *)
(* a request and calls one of them once.                                   *)

InitValidation == InitValidate \/ InitResize

NextValidation == CallValidateMove \/ CallValidateExpand \/ CallValidateShrink

SpecValidation == InitValidation /\ [][NextValidation]_vars

ValidationReturned ==
    /\ op \in {"validate_expand", "validate_shrink", "validate_move"}
    /\ pc = "returned"
    /\ validation.tag = "Ok"

\* C39: every ValidationResult that validate_expand, validate_shrink or
\* validate_move returns has is_valid = false if and only if its errors are
\* non-empty; warnings never affect is_valid.
C39_InvalidIffErrors ==
    ValidationReturned =>
        (~validation.val.is_valid <=> Len(validation.val.errors) > 0)

\* C39 witness: validate_shrink returned a result that carries the mounted,
\* boot and system warnings and no error, and is valid.
C39_Witness ==
    /\ ValidationReturned
    /\ op = "validate_shrink"
    /\ Len(validation.val.warnings) >= 3
    /\ Len(validation.val.errors) = 0
    /\ validation.val.is_valid


-----------------------------------------------------------------------------
(* Layouts: a disk whose partitions are resized and moved by operations    *)
(* the validation functions approved.  An approved expand or shrink sets   *)
(* the partition's size to the target size, an approved move sets its      *)
(* start offset to the target offset; each operation is validated against  *)
(* the layout the operations before it left.                               *)

\* sizes a caller can ask for: up to one MiB more than the disk
LayoutSizes == {k * MiB : k \in 0..(DiskUnits + 1)}

\* the layout with partition i replaced
with_partition(d, i, q) == [d EXCEPT !.partitions[i] = q]

InitLayout ==
    /\ platform = "linux"
    /\ overflow_checks \in BOOLEAN
    /\ op = "layout"
    /\ \E f \in OtherLayouts :
          /\ DOMAIN f # {}
          /\ disk = DiskInfo(DiskUnits * MiB, OthersOf(f))
          /\ partition = disk.partitions[1]
    /\ options = NoOptions
    /\ target_size = 0
    /\ pc = "layout"
    /\ validation = Pending
    /\ new_partition = None
    /\ progress = <<>>
    /\ calls = <<>>
    /\ fslog = <<>>
    /\ staging = [exists |-> FALSE, content |-> {}]
    /\ result = Pending
    /\ NoCommand

\* validate_expand approved: total_size becomes target_size
LayoutExpand ==
    /\ pc = "layout"
    /\ \E i \in 1..Len(disk.partitions), requested_size \in LayoutSizes :
          LET p == disk.partitions[i]
              v == validate_expand(p, disk, requested_size, overflow_checks)
          IN  /\ v.tag = "Ok"
              /\ v.val.is_valid
              /\ op' = "validate_expand"
              /\ partition' = p
              /\ target_size' = requested_size
              /\ validation' = v
              /\ disk' = with_partition(disk, i, [p EXCEPT !.total_size = requested_size])
              /\ table' = disk'
    /\ UNCHANGED <<platform, overflow_checks, options, pc, new_partition, progress, calls,
                   fslog, staging, result, move_operations, op_index, snapshots,
                   cancel_request, other, assigned_mount>>

\* validate_shrink approved: total_size becomes target_size
LayoutShrink ==
    /\ pc = "layout"
    /\ \E i \in 1..Len(disk.partitions), requested_size \in LayoutSizes :
          LET p == disk.partitions[i]
              v == validate_shrink(p, requested_size, platform)
          IN  /\ v.tag = "Ok"
              /\ v.val.is_valid
              /\ op' = "validate_shrink"
              /\ partition' = p
              /\ target_size' = requested_size
              /\ validation' = v
              /\ disk' = with_partition(disk, i, [p EXCEPT !.total_size = requested_size])
              /\ table' = disk'
    /\ UNCHANGED <<platform, overflow_checks, options, pc, new_partition, progress, calls,
                   fslog, staging, result, move_operations, op_index, snapshots,
                   cancel_request, other, assigned_mount>>

\* validate_move approved: start_offset becomes target_offset
LayoutMove ==
    /\ pc = "layout"
    /\ \E i \in 1..Len(disk.partitions), target_offset \in TargetOffsets :
          LET p == disk.partitions[i]
              v == validate_move(p, disk, target_offset, overflow_checks)
          IN  /\ v.tag = "Ok"
              /\ v.val.is_valid
              /\ op' = "validate_move"
              /\ partition' = p
              /\ options' = [target_offset |-> target_offset, verify_after_move |-> FALSE,
                             backup_path |-> None]
              /\ validation' = v
              /\ disk' = with_partition(disk, i, [p EXCEPT !.start_offset = target_offset])
              /\ table' = disk'
    /\ UNCHANGED <<platform, overflow_checks, target_size, pc, new_partition, progress,
                   calls, fslog, staging, result, move_operations, op_index, snapshots,
                   cancel_request, other, assigned_mount>>

NextLayout == LayoutExpand \/ LayoutShrink \/ LayoutMove

SpecLayout == InitLayout /\ [][NextLayout]_vars

\* every partition of the layout ends inside the disk
AllInsideDisk ==
    \A i \in 1..Len(disk.partitions) : EndOf(disk.partitions[i]) <= disk.total_size

\* no two partitions of the layout share a byte
NoTwoOverlap ==
    \A i, j \in 1..Len(disk.partitions) :
        i # j => ~Intersects(disk.partitions[i].start_offset, EndOf(disk.partitions[i]),
                             disk.partitions[j].start_offset, EndOf(disk.partitions[j]))

\* C33: starting from a layout in which every partition satisfies
\* start_offset + total_size <= disk.total_size and no two partitions
\* overlap, after any sequence of operations each approved by validate_expand,
\* validate_shrink or validate_move against the current layout and then
\* applied, the layout still satisfies both invariants.
C33_LayoutInvariantsPreserved == (pc = "layout") => (AllInsideDisk /\ NoTwoOverlap)

=============================================================================
